---- MODULE Spec2Model ----
(***************************************************************************)
(* LLM Council: the council -> judge orchestration pipeline.               *)
(*                                                                         *)
(* The repository holds four generations of the orchestrator.  All four   *)
(* are modelled; the variable `variant` says which one a behaviour runs:  *)
(*   "split"  src/unnamed/part_000 (1-825)   dashboard, resizable iframes  *)
(*   "iframe" src/dashboard/dashboard.js     dashboard, iframe grid        *)
(*   "tiled"  src/background/service-worker.js  worker, tiled windows      *)
(*   "tabs"   src/unnamed/part_002           worker, background tabs       *)
(* An async function is a process: one action per segment between two      *)
(* awaits, its position kept in run[r].pc.                                 *)
(***************************************************************************)
EXTENDS Naturals, Integers, Sequences, FiniteSets, TLC

\* ---------------------------------------------------------------- bounds

\* Longest council list offered to submit.
MaxCouncilLen == 3
\* Poll cycles after which a polling deadline has certainly elapsed.
MaxPolls == 2
\* Runs that may be submitted in one behaviour when runs may overlap.
MaxRuns == 2
\* Runs that may be submitted in one behaviour when they follow one another.
MaxSeqRuns == 1
\* REAUTHENTICATE_JUDGE messages handled in one behaviour.
MaxReauth == 1
\* Lines of a judge text that is not the filled-in output format.
MaxLines == 4
\* ASK_COUNCIL messages the popup may send in one behaviour.
MaxAsks == 2

\* Deliveries made to one agent page in one behaviour.
MaxDelivers == 2

\* ------------------------------------------------------ program constants

MIN_COUNCIL == 2
MAX_COUNCIL == 4
\* injectAndSend: for (attempt = 1; attempt <= 3; attempt++)
MAX_RETRIES == 3

Variants == {"split", "iframe", "tiled", "tabs"}
Dashboards == {"split", "iframe"}
Workers == {"tiled", "tabs"}

\* MODELS of utils/constants.js: the supported agents and their display names.
KnownModels == {"chatgpt", "gemini", "perplexity", "grok"}

modelName(id) ==
    CASE id = "chatgpt" -> "ChatGPT"
      [] id = "gemini" -> "Gemini"
      [] id = "perplexity" -> "Perplexity"
      [] id = "grok" -> "Grok"
      [] OTHER -> id

DEFAULT_JUDGE == "gemini"

\* Identifiers a stored selection can hold; "claude" is not a key of MODELS.
AllIds == <<"chatgpt", "gemini", "claude", "perplexity", "grok">>

CouncilLists == { SubSeq(AllIds, 1, n) : n \in 0..MaxCouncilLen }

JudgeIds == {DEFAULT_JUDGE, "grok", "claude"}

RunIds == 1..MaxRuns

\* ------------------------------------------------------------ value types

\* A channel reference: a frame id of the dashboard tab, or a tab id.  A channel
\* is named by the run that created it and the panel (role, agent) it was
\* created for; run 0 marks a tab that was open before any run.
NULL == [run |-> 0, role |-> "", id |-> ""]

Chan(r, role, id) == [run |-> r, role |-> role, id |-> id]

\* A response text: which agent wrote it, in reply to which run's prompt.
NoText == [by |-> "", q |-> 0]

NoOutcome == [kind |-> "none", msg |-> "", parsed |-> FALSE, rawText |-> <<>>]

NoCall == [n |-> 0, log |-> <<>>, ret |-> "none", reason |-> ""]

VARIABLES
    variant,          \* which generation of the orchestrator runs
    selectedCouncil,  \* the UI's council selection (loadConfig / toggleModel)
    selectedJudge,    \* the UI's judge selection
    run,              \* run id -> the locals of that handleSubmit/handleAskCouncil call
    started,          \* number of submits made so far
    iframePanels,     \* dashboard: sequence of panel records, in insertion order
    domFrames,        \* dashboard: frames of the iframes now in the document
    lastResult,       \* dashboard: the result stored for copy / display
    shownBy,          \* dashboard: the run whose result the modal shows (0: none)
    view,             \* dashboard: "home" (prompt form) or "split" (the panels)
    councilState,     \* worker: the module-level run state
    tabs,             \* worker: tabs/windows now open
    received,         \* channel side: <<channel, run>> for each prompt submitted on it
    ready,            \* channel side: <<channel, run>> for each prompt answered in full
    polled,           \* channel side: <<channel, run>> for each poll sent to it
    reauth,           \* worker: the position and locals of handleReauthJudge
    je,               \* judge engine: the arguments and results of build / parse calls
    popup,            \* popup / home page: the controls, flags and messages of the UI
    page              \* content script: the handlers in one agent page and a delivery to it

vars == <<variant, selectedCouncil, selectedJudge, run, started,
          iframePanels, domFrames, lastResult, shownBy, view, councilState,
          tabs, received, ready, polled, reauth, je, popup, page>>

uiVars == <<variant, selectedCouncil, selectedJudge>>
dashVars == <<iframePanels, domFrames, lastResult, shownBy, view>>
workerVars == <<councilState, tabs>>
chanVars == <<received, ready, polled>>

\* ------------------------------------------------------------ helpers

Range(s) == { s[j] : j \in 1..Len(s) }

RECURSIVE SeqOfSet(_, _)
\* The members of the index set S in increasing order.
SeqOfSet(S, n) ==
    IF n = 0 THEN <<>>
    ELSE LET rest == SeqOfSet(S, n - 1)
         IN IF n \in S THEN Append(rest, n) ELSE rest

RECURSIVE FilterSeq(_, _)
FilterSeq(s, keep) ==
    IF s = <<>> THEN <<>>
    ELSE LET rest == FilterSeq(Tail(s), keep)
         IN IF Head(s) \in keep THEN <<Head(s)>> \o rest ELSE rest

IndexOf(s, x) == CHOOSE j \in 1..Len(s) : s[j] = x

InitRun ==
    [pc |-> "idle", council |-> <<>>, judge |-> "", judgeMode |-> "",
     i |-> 0, cap |-> 0, tgt |-> "none", dfid |-> NULL, attempt |-> 0,
     injectedCount |-> 0, responses |-> <<>>, pending |-> {}, snap |-> <<>>, k |-> 0,
     clk |-> 0, expired |-> FALSE, completed |-> <<>>, judgeFid |-> NULL,
     judgeText |-> NoText, outcome |-> NoOutcome, call |-> NoCall,
     collected |-> "no", aborted |-> FALSE, jDelivered |-> FALSE, jPolled |-> FALSE,
     rep |-> "none"]

NoCouncilState ==
    [active |-> FALSE, owner |-> 0, models |-> <<>>, responses |-> <<>>,
     judgeModelId |-> "", judgeTabId |-> NULL, judgeWindowId |-> NULL]

\* ------------------------------------------------------------ panels

\* A key that leaves the role out.
panelKeyNoRole(id, role) == [role |-> "council", id |-> id]

\* createSinglePanel: panelKey = role === 'judge' ? `judge-${id}` : id
panelKey(id, role) == [role |-> role, id |-> id]

createSinglePanel(r, id, role) ==
    [key |-> panelKey(id, role), modelId |-> id, role |-> role,
     frameId |-> NULL, failed |-> FALSE, run |-> r]

HasPanel(panels, key) == \E j \in 1..Len(panels) : panels[j].key = key

\* iframePanels[panelKey] = {...}: a new key adds a panel, a key that is there
\* has its panel replaced.
putPanel(panels, p) ==
    IF HasPanel(panels, p.key)
    THEN [j \in 1..Len(panels) |-> IF panels[j].key = p.key THEN p ELSE panels[j]]
    ELSE Append(panels, p)

\* The panels of handleSubmit: the councils (the members of a Set, no id
\* twice) first, then the judge.
panelList(r, council, judge) ==
    putPanel([j \in 1..Len(council) |-> createSinglePanel(r, council[j], "council")],
             createSinglePanel(r, judge, "judge"))

\* iframePanels[key]
PanelAt(panels, key) == panels[CHOOSE j \in 1..Len(panels) : panels[j].key = key]

\* iframePanels[key]?.frameId, NULL when the panel is absent
FrameOf(panels, key) == IF HasPanel(panels, key) THEN PanelAt(panels, key).frameId ELSE NULL

\* ------------------------------------------------------------ scheduling

\* Positions inside a synchronous stretch of code: no other handler, timer or
\* reply can run until the stretch reaches its next await.
Internal == {"loop", "pollInit", "pollWhile", "pollFor", "evaluate", "jpollWhile",
             "open", "openJudge", "inject", "wpollFor", "wpollEnd", "wevaluate",
             "wjpollWhile"}

Ended == {"idle", "done", "rejected"}

\* No run is inside a synchronous stretch.
AtAwait == \A r \in RunIds : run[r].pc \notin Internal

\* Run r may take its next step: it is the running stretch, or nothing is running.
MayStep(r) == \A r2 \in RunIds \ {r} : run[r2].pc \notin Internal

InFlight(r) == run[r].pc \notin Ended

Quiet == \A r \in RunIds : ~InFlight(r)

\* ------------------------------------------------------------ channels

\* Channels a message can still reach.
Live == IF variant \in Dashboards THEN Range(domFrames) ELSE tabs

\* The newest prompt submitted on channel c (0: none).
LastPrompt(c) ==
    LET rs == { r \in RunIds : <<c, r>> \in received }
    IN IF rs = {} THEN 0 ELSE CHOOSE r \in rs : \A r2 \in rs : r2 <= r

\* The newest prompt channel c has answered in full (0: none).
LastAnswered(c) ==
    LET rs == { r \in RunIds : <<c, r>> \in ready }
    IN IF rs = {} THEN 0 ELSE CHOOSE r \in rs : \A r2 \in rs : r2 <= r

\* The newest finished response block on channel c.
TextOf(c) == [by |-> c.id, q |-> LastAnswered(c)]

\* Replies sendMsg can bring back for INJECT_PROMPT on channel c.
InjectReplies(c) == IF c \in Live THEN {"ok", "fail", "err"} ELSE {"err"}

\* Replies to EXTRACT_RESPONSE on channel c: "text" complete with text, "blank"
\* complete with empty text, "pending" not complete, "err" no reply (lastError).
PollReplies(c) ==
    IF c \notin Live THEN {"err"}
    ELSE IF LastAnswered(c) # 0 /\ LastAnswered(c) = LastPrompt(c) THEN {"text", "err"}
    ELSE IF LastAnswered(c) # 0 THEN {"text", "pending", "err"}
    ELSE {"pending", "blank", "err"}

\* The channels a prompt has been submitted on.
Asked == { p[1] : p \in received }

\* Some run is waiting for the reply to a poll.
PollInFlight == \E r \in RunIds : run[r].pc \in {"pollAwait", "jpollAwait", "wpollAwait", "wjpollAwait"}

\* The page behind channel c finishes the answer to its newest prompt.  The
\* program can tell when only through a poll, so the step is taken while a
\* poll is in flight.
Generate(c) ==
    /\ AtAwait
    /\ PollInFlight
    /\ c \in Live
    /\ LastPrompt(c) # 0
    /\ <<c, LastPrompt(c)>> \notin ready
    /\ ready' = ready \cup {<<c, LastPrompt(c)>>}
    /\ UNCHANGED <<uiVars, page, popup, reauth, je, run, started, dashVars, workerVars, received, polled>>

\* ------------------------------------------------------------ discovery

\* Does frame f match panel p?  The frame of a known agent's site matches that
\* agent's matchPatterns / hostname and no other agent's.
frameMatches(f, p) == f.id \in KnownModels /\ p.modelId = f.id

\* An inner loop that does not skip the panels that are already bound.
bindTargetAny(checkFailed, panels, f) ==
    LET ok(j) == /\ ~(checkFailed /\ panels[j].failed)
                 /\ panels[j].modelId \in KnownModels
                 /\ frameMatches(f, panels[j])
        cand == { j \in 1..Len(panels) : ok(j) }
    IN IF cand = {} THEN 0 ELSE CHOOSE j \in cand : \A j2 \in cand : j <= j2

\* discoverFrameIds, inner loop: the first panel frame f may be bound to (0: none).
bindTarget(checkFailed, panels, f) ==
    LET ok(j) == /\ panels[j].frameId = NULL
                 /\ ~(checkFailed /\ panels[j].failed)
                 /\ panels[j].modelId \in KnownModels
                 /\ frameMatches(f, panels[j])
        cand == { j \in 1..Len(panels) : ok(j) }
    IN IF cand = {} THEN 0 ELSE CHOOSE j \in cand : \A j2 \in cand : j <= j2

RECURSIVE discoverFrameIds(_, _, _)
\* discoverFrameIds over the frames getAllFrames returned, in order.
discoverFrameIds(checkFailed, panels, frames) ==
    IF frames = <<>> THEN panels
    ELSE LET f == Head(frames)
             j == bindTarget(checkFailed, panels, f)
             bound == IF j = 0 THEN panels ELSE [panels EXCEPT ![j].frameId = f]
         IN discoverFrameIds(checkFailed, bound, Tail(frames))

\* The frame sets a getAllFrames call may report now: frames of the document
\* that have loaded a known agent's site.
Visible == SUBSET { f \in Range(domFrames) : f.id \in KnownModels }

\* ------------------------------------------------------------ dashboard: submit

\* updateUI: btnSend.disabled = !valid || !promptInput.value.trim()
btnSendDisabled(n, hasPrompt) ==
    ~(n >= MIN_COUNCIL /\ n <= MAX_COUNCIL) \/ ~hasPrompt

\* handleSubmit's own early returns.
submitReturnsEarly(n, hasPrompt) == ~hasPrompt \/ n < MIN_COUNCIL

\* handleSubmit up to its first await: createResizablePanels / createIframePanels.
handleSubmit(r) ==
    /\ variant \in Dashboards
    /\ run[r].pc = "idle"
    /\ r = started + 1
    /\ AtAwait
    /\ view = "home"
    /\ started' = r
    /\ \E hasPrompt \in BOOLEAN :
         LET n == Len(selectedCouncil) IN
         IF btnSendDisabled(n, hasPrompt) \/ submitReturnsEarly(n, hasPrompt)
         THEN /\ run' = [run EXCEPT ![r].pc = "rejected"]
              /\ UNCHANGED dashVars
         ELSE /\ iframePanels' = panelList(r, selectedCouncil, selectedJudge)
              /\ domFrames' = [j \in 1..(Len(selectedCouncil) + 1) |->
                                 IF j <= Len(selectedCouncil)
                                 THEN Chan(r, "council", selectedCouncil[j])
                                 ELSE Chan(r, "judge", selectedJudge)]
                        /\ view' = "split"
              /\ run' = [run EXCEPT ![r] = [InitRun EXCEPT
                             !.pc = "loads", !.council = selectedCouncil,
                             !.judge = selectedJudge,
                             !.responses = [j \in 1..Len(selectedCouncil) |-> NoText]]]
              /\ UNCHANGED <<lastResult, shownBy>>
    /\ UNCHANGED <<uiVars, page, popup, reauth, je, workerVars, chanVars>>

\* Does run r still own the panels in the document?
OwnsPanels(r) == iframePanels # <<>> /\ iframePanels[1].run = r

\* waitForIframeLoads: every load promise settles; in "split" an iframe's error
\* event marks its panel failed (markPanelFailed).
waitForIframeLoads(r) ==
    /\ variant \in Dashboards
    /\ run[r].pc = "loads"
    /\ MayStep(r)
    /\ \E errs \in SUBSET (1..Len(iframePanels)) :
         /\ (variant # "split" \/ ~OwnsPanels(r)) => errs = {}
         /\ iframePanels' = [j \in 1..Len(iframePanels) |->
                               IF j \in errs THEN [iframePanels[j] EXCEPT !.failed = TRUE]
                               ELSE iframePanels[j]]
    /\ run' = [run EXCEPT ![r].pc = "disc1"]
    /\ UNCHANGED <<uiVars, page, popup, reauth, je, started, domFrames, lastResult, shownBy, view, workerVars, chanVars>>

\* await discoverFrameIds(), first pass; "split" then waits 2 s and runs a second.
discoverFirst(r) ==
    /\ variant \in Dashboards
    /\ run[r].pc = "disc1"
    /\ MayStep(r)
    /\ \E vis \in Visible :
         /\ iframePanels' = discoverFrameIds(variant = "split", iframePanels,
                                             FilterSeq(domFrames, vis))
    /\ run' = [run EXCEPT ![r].pc = IF variant = "split" THEN "disc2" ELSE "loop",
                          ![r].i = 1]
    /\ UNCHANGED <<uiVars, page, popup, reauth, je, started, domFrames, lastResult, shownBy, view, workerVars, chanVars>>

\* "split": await delay(2000); await discoverFrameIds()
discoverRetry(r) ==
    /\ variant = "split"
    /\ run[r].pc = "disc2"
    /\ MayStep(r)
    /\ \E vis \in Visible :
         /\ iframePanels' = discoverFrameIds(TRUE, iframePanels, FilterSeq(domFrames, vis))
    /\ run' = [run EXCEPT ![r].pc = "loop", ![r].i = 1]
    /\ UNCHANGED <<uiVars, page, popup, reauth, je, started, domFrames, lastResult, shownBy, view, workerVars, chanVars>>

\* ------------------------------------------------------------ outcomes

Result(parsed, rawText) == [kind |-> "result", msg |-> "", parsed |-> parsed, rawText |-> rawText]

\* A run that ends on an error without telling anyone.
FailureSilent(msg) == NoOutcome

Failure(msg) == [kind |-> "error", msg |-> msg, parsed |-> FALSE, rawText |-> <<>>]

\* Every agent counted as completed, collected or not.
completedOfAll(responses) == SeqOfSet(1..Len(responses), Len(responses))

\* Indices of the council agents whose response was collected, in council order.
completedOf(responses) ==
    SeqOfSet({ j \in 1..Len(responses) : responses[j] # NoText }, Len(responses))

\* completed.map(r => `${r.name}:\n${r.response}`).join('\n\n---\n\n'): the
\* joined text, kept as the sequence of its <<name, response>> blocks.
fallbackRawText(council, responses) ==
    LET done == completedOf(responses)
    IN [j \in 1..Len(done) |-> <<modelName(council[done[j]]), responses[done[j]]>>]

\* lastResult = { parsed: false, rawText: ... } in place of a judge verdict.
fallbackResult(council, responses) == Result(FALSE, fallbackRawText(council, responses))

\* parseJudgeResponse(text): rawText is the judge's text; parsed tells whether
\* scores or a ranking were found in it.
judgeResult(text, parsed) == Result(parsed, << <<"judge", text>> >>)

\* A dashboard run ends: a result is stored in lastResult and shown in the modal,
\* an error is written to the status line only.
DashEnd(r, rec, out) ==
    /\ run' = [run EXCEPT ![r] = [rec EXCEPT !.pc = "done", !.outcome = out]]
    /\ IF out.kind = "result"
       THEN lastResult' = out /\ shownBy' = r
       ELSE UNCHANGED <<lastResult, shownBy>>

\* ------------------------------------------------------------ dashboard: delivery

\* injectAndSend is called for channel fid.
startCall(rec, tgt, fid) ==
    [rec EXCEPT !.pc = "attempt", !.tgt = tgt, !.dfid = fid, !.attempt = 1, !.call = NoCall]

\* for (const cid of councilIds): the loop head, up to the next await.
councilLoop(r) ==
    /\ variant \in Dashboards
    /\ run[r].pc = "loop"
    /\ LET me == run[r]
           n == Len(me.council)
       IN IF me.i > n
          THEN IF variant = "split" /\ me.injectedCount = 0
               THEN /\ DashEnd(r, [me EXCEPT !.collected = "none"],
                               Failure("No models accepted the prompt"))
               ELSE /\ run' = [run EXCEPT ![r].pc = "pollInit"]
                    /\ UNCHANGED <<lastResult, shownBy>>
          ELSE LET key == panelKey(me.council[me.i], "council")
                   has == HasPanel(iframePanels, key)
                   skip == \/ ~has
                           \/ variant = "split" /\ PanelAt(iframePanels, key).failed
                           \/ PanelAt(iframePanels, key).frameId = NULL
               IN /\ run' = [run EXCEPT ![r] =
                        IF ~skip THEN startCall(me, "council", PanelAt(iframePanels, key).frameId)
                        ELSE IF variant = "split" THEN [me EXCEPT !.i = me.i + 1]
                        ELSE [me EXCEPT !.pc = "rediscover",
                                        !.cap = IF has THEN PanelAt(iframePanels, key).run ELSE 0]]
                  /\ UNCHANGED <<lastResult, shownBy>>
    /\ UNCHANGED <<uiVars, page, popup, reauth, je, started, iframePanels, domFrames, view, workerVars, chanVars>>

\* "iframe": await delay(2000); await discoverFrameIds(); if (!panel?.frameId) continue
\* -- panel is the object captured before the delay.
rediscover(r) ==
    /\ variant = "iframe"
    /\ run[r].pc = "rediscover"
    /\ MayStep(r)
    /\ \E vis \in Visible :
         LET me == run[r]
             key == panelKey(me.council[me.i], "council")
             panels == discoverFrameIds(FALSE, iframePanels, FilterSeq(domFrames, vis))
             fid == IF me.cap # 0 /\ HasPanel(panels, key) /\ PanelAt(panels, key).run = me.cap
                    THEN PanelAt(panels, key).frameId ELSE NULL
         IN /\ iframePanels' = panels
            /\ run' = [run EXCEPT ![r] =
                  IF fid = NULL THEN [me EXCEPT !.pc = "loop", !.i = me.i + 1]
                  ELSE startCall(me, "council", fid)]
    /\ UNCHANGED <<uiVars, page, popup, reauth, je, started, domFrames, lastResult, shownBy, view, workerVars, chanVars>>

\* injectAndSend, one attempt's first half: executeScript settles (its failure
\* is swallowed), the settle delay elapses and INJECT_PROMPT is sent.
attemptSend(r) ==
    /\ variant \in Dashboards
    /\ run[r].pc = "attempt"
    /\ MayStep(r)
    /\ run' = [run EXCEPT ![r].pc = "send", ![r].call.n = run[r].attempt]
    /\ UNCHANGED <<uiVars, page, popup, reauth, je, started, dashVars, workerVars, chanVars>>

\* injectAndSend with one attempt more.
attemptVerdictExtra(attempt, out) ==
    IF out = "ok" THEN "return"
    ELSE IF attempt >= MAX_RETRIES + 1 THEN "throw"
    ELSE IF out = "fail" THEN "continue"
    ELSE "backoff"

\* injectAndSend, what one attempt's reply leads to.
attemptVerdict(attempt, out) ==
    IF out = "ok" THEN "return"
    ELSE IF attempt >= MAX_RETRIES THEN "throw"
    ELSE IF out = "fail" THEN "continue"
    ELSE "backoff"

\* The reason injectAndSend fails with: that of the attempt that threw.
throwReason(log) == log[Len(log)]

\* injectAndSend, one attempt's second half: the reply to INJECT_PROMPT arrives
\* (or the send is rejected) and the call returns, retries or throws.  The
\* caller's handling of the return or the throw runs in the same stretch.
sendReply(r) ==
    /\ variant \in Dashboards
    /\ run[r].pc = "send"
    /\ MayStep(r)
    /\ \E out \in InjectReplies(run[r].dfid) :
         LET me == run[r]
             log == Append(me.call.log, out)
             v == attemptVerdict(me.attempt, out)
             called == [me EXCEPT !.call =
                          [n |-> me.attempt, log |-> log,
                           ret |-> CASE v = "return" -> "ok" [] v = "throw" -> "throw"
                                     [] OTHER -> "none",
                           reason |-> IF v = "throw" THEN throwReason(log) ELSE ""]]
         IN /\ received' = IF out = "ok" THEN received \cup {<<me.dfid, r>>} ELSE received
            /\ CASE v = "continue" ->
                      /\ run' = [run EXCEPT ![r] = [called EXCEPT !.pc = "attempt",
                                                                  !.attempt = me.attempt + 1]]
                      /\ UNCHANGED <<lastResult, shownBy>>
                 [] v = "backoff" ->
                      /\ run' = [run EXCEPT ![r] = [called EXCEPT !.pc = "backoff"]]
                      /\ UNCHANGED <<lastResult, shownBy>>
                 [] v = "return" /\ me.tgt = "council" ->
                      /\ run' = [run EXCEPT ![r] = [called EXCEPT !.pc = "interDelay",
                                    !.injectedCount = IF variant = "split" THEN me.injectedCount + 1
                                                       ELSE me.injectedCount]]
                      /\ UNCHANGED <<lastResult, shownBy>>
                 [] v = "throw" /\ me.tgt = "council" ->
                      /\ run' = [run EXCEPT ![r] = [called EXCEPT !.pc = "interDelay"]]
                      /\ UNCHANGED <<lastResult, shownBy>>
                 [] v = "return" /\ me.tgt = "judge" ->
                      /\ run' = [run EXCEPT ![r] = [called EXCEPT !.pc = "jpollWhile",
                                    !.jDelivered = TRUE, !.clk = 0, !.expired = FALSE]]
                      /\ UNCHANGED <<lastResult, shownBy>>
                 [] v = "throw" /\ me.tgt = "judge" ->
                      IF variant = "split"
                      THEN DashEnd(r, called, fallbackResult(me.council, me.responses))
                      ELSE DashEnd(r, called, Failure("Judge injection failed."))
    /\ UNCHANGED <<uiVars, page, popup, reauth, je, started, iframePanels, domFrames, view, workerVars, ready, polled>>

\* injectAndSend: the backoff delay after a rejected send, then the next attempt.
backoff(r) ==
    /\ variant \in Dashboards
    /\ run[r].pc = "backoff"
    /\ MayStep(r)
    /\ run' = [run EXCEPT ![r].pc = "attempt", ![r].attempt = run[r].attempt + 1]
    /\ UNCHANGED <<uiVars, page, popup, reauth, je, started, dashVars, workerVars, chanVars>>

\* await delay(DEFAULTS.INJECTION_DELAY_MS) after a council agent's delivery.
interDelay(r) ==
    /\ variant \in Dashboards
    /\ run[r].pc = "interDelay"
    /\ MayStep(r)
    /\ run' = [run EXCEPT ![r].pc = "loop", ![r].i = run[r].i + 1, ![r].call = NoCall]
    /\ UNCHANGED <<uiVars, page, popup, reauth, je, started, dashVars, workerVars, chanVars>>

\* ------------------------------------------------------------ dashboard: polling

\* The deadline flag after one more poll interval: certainly elapsed after
\* MaxPolls intervals, possibly earlier.
Elapses(me) == IF me.clk + 1 >= MaxPolls THEN {TRUE} ELSE {me.expired, TRUE}

\* A polling phase that waits for nobody.
pendingOfNone(council) == {}

\* pollForCouncilResponses: pending = new Set(councilIds.filter(...))
pendingOf(council) ==
    { id \in Range(council) :
        /\ HasPanel(iframePanels, panelKey(id, "council"))
        /\ ~(variant = "split" /\ PanelAt(iframePanels, panelKey(id, "council")).failed)
        /\ PanelAt(iframePanels, panelKey(id, "council")).frameId # NULL }

pollInit(r) ==
    /\ variant \in Dashboards
    /\ run[r].pc = "pollInit"
    /\ run' = [run EXCEPT ![r].pc = "pollWhile", ![r].pending = pendingOf(run[r].council),
                          ![r].clk = 0, ![r].expired = FALSE]
    /\ UNCHANGED <<uiVars, page, popup, reauth, je, started, dashVars, workerVars, chanVars>>

\* while (pending.size > 0 && Date.now() - start < timeout)
pollWhile(r) ==
    /\ variant \in Dashboards
    /\ run[r].pc = "pollWhile"
    /\ LET me == run[r]
       IN run' = [run EXCEPT ![r] =
            IF me.pending = {} \/ me.expired
            THEN [me EXCEPT !.pc = "evaluate",
                            !.collected = IF me.pending = {} THEN "all" ELSE "deadline"]
            ELSE [me EXCEPT !.pc = "pollFor", !.snap = FilterSeq(me.council, me.pending),
                            !.k = 1]]
    /\ UNCHANGED <<uiVars, page, popup, reauth, je, started, dashVars, workerVars, chanVars>>

\* for (const id of [...pending]): one iteration up to its await extractFromFrame
pollFor(r) ==
    /\ variant \in Dashboards
    /\ run[r].pc = "pollFor"
    /\ LET me == run[r]
       IN IF me.k > Len(me.snap)
          THEN /\ run' = [run EXCEPT ![r].pc =
                            IF me.pending # {} THEN "pollDelay" ELSE "pollWhile"]
               /\ UNCHANGED polled
          ELSE LET id == me.snap[me.k]
                   fid == FrameOf(iframePanels, panelKey(id, "council"))
               IN IF fid = NULL
                  THEN /\ run' = [run EXCEPT ![r].pending = me.pending \ {id},
                                             ![r].k = me.k + 1]
                       /\ UNCHANGED polled
                  ELSE /\ run' = [run EXCEPT ![r].pc = "pollAwait", ![r].dfid = fid]
                       /\ polled' = polled \cup {<<fid, r>>}
    /\ UNCHANGED <<uiVars, page, popup, reauth, je, started, dashVars, workerVars, received, ready>>

\* extractFromFrame resolves: if (r.complete && r.response) the agent is complete.
pollReply(r) ==
    /\ variant \in Dashboards
    /\ run[r].pc = "pollAwait"
    /\ MayStep(r)
    /\ \E rep \in PollReplies(run[r].dfid) :
         LET me == run[r]
             id == me.snap[me.k]
         IN run' = [run EXCEPT ![r] =
              IF rep = "text"
              THEN [me EXCEPT !.pc = "pollFor", !.k = me.k + 1, !.rep = rep,
                              !.responses[IndexOf(me.council, id)] = TextOf(me.dfid),
                              !.pending = me.pending \ {id}]
              ELSE [me EXCEPT !.pc = "pollFor", !.k = me.k + 1, !.rep = rep]]
    /\ UNCHANGED <<uiVars, page, popup, reauth, je, started, dashVars, workerVars, chanVars>>

\* if (pending.size > 0) await delay(DEFAULTS.POLL_INTERVAL_MS)
pollDelay(r) ==
    /\ variant \in Dashboards
    /\ run[r].pc = "pollDelay"
    /\ MayStep(r)
    /\ \E e \in Elapses(run[r]) :
         run' = [run EXCEPT ![r].pc = "pollWhile", ![r].clk = run[r].clk + 1,
                            ![r].expired = e]
    /\ UNCHANGED <<uiVars, page, popup, reauth, je, started, dashVars, workerVars, chanVars>>

\* ------------------------------------------------------------ dashboard: judge

\* After polling: build the evaluation and go to the judge, up to the next await.
evaluate(r) ==
    /\ variant \in Dashboards
    /\ run[r].pc = "evaluate"
    /\ LET me == run[r]
           completed == completedOf(me.responses)
           judgeKey == panelKey(selectedJudge, "judge")
           has == HasPanel(iframePanels, judgeKey)
           unavailable == \/ ~has
                          \/ variant = "split" /\ PanelAt(iframePanels, judgeKey).failed
                          \/ PanelAt(iframePanels, judgeKey).frameId = NULL
           rec == [me EXCEPT !.completed = completed]
       IN IF completed = <<>>
          THEN DashEnd(r, rec, Failure("No council responses received."))
          ELSE IF unavailable
          THEN IF variant = "split"
               THEN DashEnd(r, rec, fallbackResult(me.council, me.responses))
               ELSE DashEnd(r, rec, Failure("Judge frame not found."))
          ELSE /\ run' = [run EXCEPT ![r] =
                     startCall(rec, "judge", PanelAt(iframePanels, judgeKey).frameId)]
               /\ UNCHANGED <<lastResult, shownBy>>
    /\ UNCHANGED <<uiVars, page, popup, reauth, je, started, iframePanels, domFrames, view, workerVars, chanVars>>

\* pollFrameForResponse: while (Date.now() - start < timeoutMs), up to the await.
jpollWhile(r) ==
    /\ variant \in Dashboards
    /\ run[r].pc = "jpollWhile"
    /\ LET me == run[r]
       IN IF me.expired
          THEN /\ IF variant = "split"
                  THEN DashEnd(r, me, fallbackResult(me.council, me.responses))
                  ELSE DashEnd(r, me, Failure("Judge timed out."))
               /\ UNCHANGED polled
          ELSE /\ run' = [run EXCEPT ![r].pc = "jpollAwait", ![r].jPolled = TRUE]
               /\ polled' = polled \cup {<<me.dfid, r>>}
               /\ UNCHANGED <<lastResult, shownBy>>
    /\ UNCHANGED <<uiVars, page, popup, reauth, je, started, iframePanels, domFrames, view, workerVars,
                   received, ready>>

\* The judge's extractFromFrame resolves; a complete answer is parsed and shown.
jpollReply(r) ==
    /\ variant \in Dashboards
    /\ run[r].pc = "jpollAwait"
    /\ MayStep(r)
    /\ \E rep \in PollReplies(run[r].dfid) :
         IF rep = "text"
         THEN \E parsed \in BOOLEAN :
                DashEnd(r, [run[r] EXCEPT !.judgeText = TextOf(run[r].dfid), !.rep = rep],
                        judgeResult(TextOf(run[r].dfid), parsed))
         ELSE /\ run' = [run EXCEPT ![r].pc = "jpollDelay", ![r].rep = rep]
              /\ UNCHANGED <<lastResult, shownBy>>
    /\ UNCHANGED <<uiVars, page, popup, reauth, je, started, iframePanels, domFrames, view, workerVars, chanVars>>

jpollDelay(r) ==
    /\ variant \in Dashboards
    /\ run[r].pc = "jpollDelay"
    /\ MayStep(r)
    /\ \E e \in Elapses(run[r]) :
         run' = [run EXCEPT ![r].pc = "jpollWhile", ![r].clk = run[r].clk + 1,
                            ![r].expired = e]
    /\ UNCHANGED <<uiVars, page, popup, reauth, je, started, dashVars, workerVars, chanVars>>

\* ------------------------------------------------------------ dashboard: leaving

\* The Back button: the iframes are removed and the panel map emptied.  Runs
\* still in flight are from now on aborted runs.
goBackToHome ==
    /\ variant \in Dashboards
    /\ view = "split"
    /\ AtAwait
    /\ iframePanels' = <<>>
    /\ domFrames' = <<>>
    /\ view' = "home"
    /\ run' = [r \in RunIds |-> IF InFlight(r) THEN [run[r] EXCEPT !.aborted = TRUE] ELSE run[r]]
    /\ UNCHANGED <<uiVars, page, popup, reauth, je, started, lastResult, shownBy, workerVars, chanVars>>

\* A sidebar nav item: the split screen is hidden, nothing else changes.
navHome ==
    /\ variant \in Dashboards
    /\ view = "split"
    /\ AtAwait
    /\ view' = "home"
    /\ UNCHANGED <<uiVars, page, popup, reauth, je, run, started, iframePanels, domFrames, lastResult, shownBy,
                   workerVars, chanVars>>

\* ------------------------------------------------------------ worker: start

\* RESPONSE_STATUS values after which an agent's status is final.
TerminalStatus == {"complete", "failed", "timeout"}

\* A worker run ends: `finally { councilState.active = false }`; an error or a
\* result has been broadcast.
WorkerEnd(r, rec, cs, out) ==
    /\ run' = [run EXCEPT ![r] = [rec EXCEPT !.pc = "done", !.outcome = out]]
    /\ councilState' = [cs EXCEPT !.active = FALSE]

\* handleAskCouncil up to its first await: the state is reset for the lists of
\* the message, whatever their length.
handleAskCouncil(r) ==
    /\ variant \in Workers
    /\ run[r].pc = "idle"
    /\ r = started + 1
    /\ AtAwait
    /\ started' = r
    /\ \E jm \in IF variant = "tabs" THEN {"incognito", "same-session"} ELSE {"incognito"} :
         /\ councilState' =
               [active |-> TRUE, owner |-> r, models |-> selectedCouncil,
                responses |-> [j \in 1..Len(selectedCouncil) |->
                                 [tabId |-> NULL, status |-> "pending", response |-> NoText]],
                judgeModelId |-> selectedJudge, judgeTabId |-> NULL, judgeWindowId |-> NULL]
         /\ run' = [run EXCEPT ![r] = [InitRun EXCEPT
                        !.pc = "open", !.council = selectedCouncil, !.judge = selectedJudge,
                        !.judgeMode = jm, !.i = 1]]
    /\ UNCHANGED <<uiVars, page, popup, reauth, je, dashVars, tabs, chanVars>>

\* Step 2 / openCouncilTabs: the loop head, up to the next await.
openHead(r) ==
    /\ variant \in Workers
    /\ run[r].pc = "open"
    /\ LET me == run[r]
       IN run' = [run EXCEPT ![r] =
            IF me.i > Len(me.council)
            THEN [me EXCEPT !.pc = IF variant = "tiled" THEN "openJudge" ELSE "inject", !.i = 1]
            ELSE IF me.council[me.i] \notin KnownModels THEN [me EXCEPT !.i = me.i + 1]
            ELSE [me EXCEPT !.pc = "openAwait"]]
    /\ UNCHANGED <<uiVars, page, popup, reauth, je, started, dashVars, workerVars, chanVars>>

\* Tabs findTabForModel can return for agent id: open tabs showing its site.
tabsOf(id) == { c \in tabs : c.id = id }

\* chrome.windows.create settles ("tiled"); findTabForModel, chrome.tabs.create
\* and waitForTabLoad settle ("tabs").  A failure marks the agent failed.
openAwait(r) ==
    /\ variant \in Workers
    /\ run[r].pc = "openAwait"
    /\ MayStep(r)
    /\ LET me == run[r]
           id == me.council[me.i]
           fresh == Chan(r, "council", id)
           next == [me EXCEPT !.pc = "open", !.i = me.i + 1]
       IN /\ run' = [run EXCEPT ![r] = next]
          /\ IF variant = "tabs" /\ tabsOf(id) # {}
             THEN \E c \in tabsOf(id) :
                    /\ councilState' = [councilState EXCEPT !.responses[me.i].tabId = c]
                    /\ UNCHANGED tabs
             ELSE \E res \in IF variant = "tabs" THEN {"ok", "noTab", "noLoad"}
                                                 ELSE {"ok", "noTab"} :
                    /\ tabs' = IF res = "noTab" THEN tabs ELSE tabs \cup {fresh}
                    /\ councilState' =
                         CASE res = "ok" -> [councilState EXCEPT !.responses[me.i].tabId = fresh]
                           [] res = "noTab" ->
                                [councilState EXCEPT !.responses[me.i].status = "failed"]
                           [] res = "noLoad" ->
                                [councilState EXCEPT !.responses[me.i].tabId = fresh,
                                                     !.responses[me.i].status = "failed"]
    /\ UNCHANGED <<uiVars, page, popup, reauth, je, started, dashVars, chanVars>>

\* "tiled" step 3: the judge window, opened before any prompt is sent.
openJudgeHead(r) ==
    /\ variant = "tiled"
    /\ run[r].pc = "openJudge"
    /\ run' = [run EXCEPT ![r].pc =
                 IF run[r].judge \in KnownModels THEN "openJudgeAwait" ELSE "load"]
    /\ UNCHANGED <<uiVars, page, popup, reauth, je, started, dashVars, workerVars, chanVars>>

\* The judge window's create settles.  "tiled": a failed create is retried
\* without incognito, and a second failure leaves the try block.  "tabs":
\* openJudgeTab returns the tab id or throws.
openJudgeAwait(r) ==
    /\ variant \in Workers
    /\ run[r].pc = "openJudgeAwait"
    /\ MayStep(r)
    /\ LET me == run[r]
           fresh == Chan(r, "judge", me.judge)
           reuse == IF variant = "tabs" /\ me.judgeMode = "same-session"
                    THEN tabsOf(me.judge) ELSE {}
       IN IF reuse # {}
          THEN \E c \in reuse :
                 /\ councilState' = [councilState EXCEPT !.judgeTabId = c]
                 /\ run' = [run EXCEPT ![r] =
                       [me EXCEPT !.pc = "wattempt", !.tgt = "judge", !.dfid = c,
                                  !.attempt = 1, !.call = NoCall]]
                 /\ UNCHANGED tabs
          ELSE \E res \in {"ok", "noTab"} \cup (IF variant = "tabs" THEN {"noLoad"} ELSE {}) :
                 CASE res = "ok" /\ variant = "tiled" ->
                        /\ tabs' = tabs \cup {fresh}
                        /\ councilState' = [councilState EXCEPT !.judgeTabId = fresh,
                                                                !.judgeWindowId = fresh]
                        /\ run' = [run EXCEPT ![r].pc = "load"]
                   [] res = "ok" /\ variant = "tabs" ->
                        /\ tabs' = tabs \cup {fresh}
                        /\ councilState' = [councilState EXCEPT !.judgeTabId = fresh,
                                    !.judgeWindowId = IF me.judgeMode = "incognito"
                                                      THEN fresh ELSE @]
                        /\ run' = [run EXCEPT ![r] =
                              [me EXCEPT !.pc = "wattempt", !.tgt = "judge", !.dfid = fresh,
                                         !.attempt = 1, !.call = NoCall]]
                   [] res = "noLoad" ->
                        /\ tabs' = tabs \cup {fresh}
                        /\ WorkerEnd(r, me,
                                     [councilState EXCEPT !.judgeWindowId =
                                        IF me.judgeMode = "incognito" THEN fresh ELSE @],
                                     Failure("Tab load timeout"))
                   [] res = "noTab" ->
                        /\ UNCHANGED tabs
                        /\ WorkerEnd(r, me, councilState, Failure("window create failed"))
    /\ UNCHANGED <<uiVars, page, popup, reauth, je, started, dashVars, chanVars>>

\* "tiled" step 4: waitForTabLoad for every opened tab; a timeout is caught.
waitForTabLoads(r) ==
    /\ variant = "tiled"
    /\ run[r].pc = "load"
    /\ MayStep(r)
    /\ run' = [run EXCEPT ![r].pc = "inject", ![r].i = 1]
    /\ UNCHANGED <<uiVars, page, popup, reauth, je, started, dashVars, workerVars, chanVars>>

\* ------------------------------------------------------------ worker: delivery

\* waitForAllResponses starts: activeModels = the agents now waiting.
activeModels(cs) ==
    SeqOfSet({ j \in 1..Len(cs.models) : cs.responses[j].status = "waiting" }, Len(cs.models))

\* An injection loop that skips nobody.
skipsNothing(st) == FALSE

\* The injection loop's `continue`: "tiled" skips failed agents and agents
\* without a tab, "tabs" only failed ones.
skipsInjection(st) == st.status = "failed" \/ (variant = "tiled" /\ st.tabId = NULL)

\* Step 5 / injectPromptsSequentially: the loop head, up to the next await.
injectHead(r) ==
    /\ variant \in Workers
    /\ run[r].pc = "inject"
    /\ LET me == run[r]
           st == councilState.responses[me.i]
       IN IF me.i > Len(me.council)
          THEN /\ run' = [run EXCEPT ![r] =
                    [me EXCEPT !.pc = "wpollFor", !.snap = activeModels(councilState),
                               !.k = 1, !.clk = 0, !.expired = FALSE, !.call = NoCall]]
               /\ UNCHANGED councilState
          ELSE IF skipsInjection(st)
          THEN /\ run' = [run EXCEPT ![r].i = me.i + 1]
               /\ UNCHANGED councilState
          ELSE /\ councilState' = [councilState EXCEPT !.responses[me.i].status = "injecting"]
               /\ run' = [run EXCEPT ![r] =
                    [me EXCEPT !.pc = "wattempt", !.tgt = "council", !.dfid = st.tabId,
                               !.attempt = 1, !.call = NoCall]]
    /\ UNCHANGED <<uiVars, page, popup, reauth, je, started, dashVars, tabs, chanVars>>

\* injectIntoTab, first half: executeScript settles (its failure is swallowed),
\* delay(500) elapses and INJECT_PROMPT is sent.
injectIntoTabSend(r) ==
    /\ variant \in Workers
    /\ run[r].pc = "wattempt"
    /\ MayStep(r)
    /\ run' = [run EXCEPT ![r].pc = "wsend", ![r].call.n = 1]
    /\ UNCHANGED <<uiVars, page, popup, reauth, je, started, dashVars, workerVars, chanVars>>

\* injectIntoTab, what the reply leads to: resolve on success, reject otherwise.
injectIntoTabVerdict(out) == IF out = "ok" THEN "return" ELSE "throw"

\* An injection loop that goes straight on to the next agent.
afterInjectNoDelay(called, last) == [called EXCEPT !.pc = "inject", !.i = called.i + 1]

\* if (modelIds.indexOf(modelId) < modelIds.length - 1) await delay(INJECTION_DELAY_MS)
afterInject(called, last) ==
    IF last THEN [called EXCEPT !.pc = "inject", !.i = called.i + 1]
    ELSE [called EXCEPT !.pc = "winterDelay"]

\* An injection loop that takes a delivered prompt for an answer.
statusAfterInjectDone(v) == IF v = "return" THEN "complete" ELSE "failed"

\* try { await injectIntoTab(...); state.status = WAITING } catch { state.status = FAILED }
statusAfterInject(v) == IF v = "return" THEN "waiting" ELSE "failed"

\* injectIntoTab, second half, with the caller's handling of its outcome.  For
\* the judge of "tiled" the window is then focused, which may itself fail.
injectIntoTabReply(r) ==
    /\ variant \in Workers
    /\ run[r].pc = "wsend"
    /\ MayStep(r)
    /\ \E out \in InjectReplies(run[r].dfid), focused \in BOOLEAN :
         LET me == run[r]
             v == injectIntoTabVerdict(out)
             called == [me EXCEPT !.call =
                          [n |-> 1, log |-> <<out>>,
                           ret |-> IF v = "return" THEN "ok" ELSE "throw",
                           reason |-> IF v = "throw" THEN throwReason(<<out>>) ELSE ""]]
             last == me.i >= Len(me.council)
         IN /\ (me.tgt = "council" \/ variant = "tabs" \/ v = "throw") => focused
            /\ received' = IF out = "ok" THEN received \cup {<<me.dfid, r>>} ELSE received
            /\ IF me.tgt = "council"
               THEN /\ councilState' = [councilState EXCEPT !.responses[me.i].status =
                                           statusAfterInject(v)]
                    /\ run' = [run EXCEPT ![r] = afterInject(called, last)]
               ELSE IF v = "throw"
               THEN WorkerEnd(r, called, councilState, Failure(throwReason(<<out>>)))
               ELSE IF ~focused
               THEN WorkerEnd(r, [called EXCEPT !.jDelivered = TRUE], councilState,
                              Failure("window focus failed"))
               ELSE /\ run' = [run EXCEPT ![r] =
                          [called EXCEPT !.pc = "wjpollWhile", !.jDelivered = TRUE,
                                         !.clk = 0, !.expired = FALSE]]
                    /\ UNCHANGED councilState
    /\ UNCHANGED <<uiVars, page, popup, reauth, je, started, dashVars, tabs, ready, polled>>

\* await delay(DEFAULTS.INJECTION_DELAY_MS) between two agents.
winterDelay(r) ==
    /\ variant \in Workers
    /\ run[r].pc = "winterDelay"
    /\ MayStep(r)
    /\ run' = [run EXCEPT ![r].pc = "inject", ![r].i = run[r].i + 1, ![r].call = NoCall]
    /\ UNCHANGED <<uiVars, page, popup, reauth, je, started, dashVars, workerVars, chanVars>>

\* ------------------------------------------------------------ worker: polling

\* waitForAllResponses: one iteration of `for (const modelId of activeModels)`,
\* up to its await pollTab.
wpollFor(r) ==
    /\ variant \in Workers
    /\ run[r].pc = "wpollFor"
    /\ LET me == run[r]
       IN IF me.k > Len(me.snap)
          THEN /\ run' = [run EXCEPT ![r].pc = "wpollEnd"]
               /\ UNCHANGED <<councilState, polled>>
          ELSE LET j == me.snap[me.k]
                   st == councilState.responses[j]
               IN IF st.status # "waiting"
                  THEN /\ run' = [run EXCEPT ![r].k = me.k + 1]
                       /\ UNCHANGED <<councilState, polled>>
                  ELSE IF me.expired
                  THEN /\ councilState' = [councilState EXCEPT !.responses[j].status = "timeout",
                                                               !.responses[j].response = NoText]
                       /\ run' = [run EXCEPT ![r].k = me.k + 1]
                       /\ UNCHANGED polled
                  ELSE /\ run' = [run EXCEPT ![r].pc = "wpollAwait", ![r].dfid = st.tabId]
                       /\ polled' = polled \cup {<<st.tabId, r>>}
                       /\ UNCHANGED councilState
    /\ UNCHANGED <<uiVars, page, popup, reauth, je, started, dashVars, tabs, received, ready>>

\* The response of a complete reply: the text read, or the empty string.
replyText(c, rep) == IF rep = "text" THEN TextOf(c) ELSE [by |-> c.id, q |-> 0]

\* A poller that takes a poll without a reply for a finished answer.
resultCompleteOrLost(rep) == rep # "pending"

\* waitForAllResponses: if (result.complete), for the reply pollTab resolved
\* with; a rejected pollTab goes to the empty catch.
resultComplete(rep) == rep \in {"text", "blank"}

\* pollTab settles: if (result.complete) the agent is complete; a rejection is
\* caught.  Time has passed meanwhile.
wpollReply(r) ==
    /\ variant \in Workers
    /\ run[r].pc = "wpollAwait"
    /\ MayStep(r)
    /\ \E rep \in PollReplies(run[r].dfid), e \in {run[r].expired, TRUE} :
         LET me == run[r]
             j == me.snap[me.k]
         IN /\ councilState' =
                 IF resultComplete(rep)
                 THEN [councilState EXCEPT !.responses[j].status = "complete",
                                           !.responses[j].response = replyText(me.dfid, rep)]
                 ELSE councilState
            /\ run' = [run EXCEPT ![r].pc = "wpollFor", ![r].k = me.k + 1, ![r].expired = e,
                                  ![r].rep = rep]
    /\ UNCHANGED <<uiVars, page, popup, reauth, je, started, dashVars, tabs, chanVars>>

\* After the for loop: leave when nobody is waiting or the deadline has passed
\* (the rest time out), else sleep one poll interval.
wpollEnd(r) ==
    /\ variant \in Workers
    /\ run[r].pc = "wpollEnd"
    /\ LET me == run[r]
           remaining == { j \in Range(me.snap) : councilState.responses[j].status = "waiting" }
       IN IF remaining = {}
          THEN /\ run' = [run EXCEPT ![r].pc = "wevaluate",
                                     ![r].collected = IF me.expired THEN "deadline" ELSE "all"]
               /\ UNCHANGED councilState
          ELSE IF me.expired
          THEN /\ councilState' = [councilState EXCEPT !.responses =
                     [j \in 1..Len(councilState.responses) |->
                        IF j \in remaining
                        THEN [councilState.responses[j] EXCEPT !.status = "timeout"]
                        ELSE councilState.responses[j]]]
               /\ run' = [run EXCEPT ![r].pc = "wevaluate", ![r].collected = "deadline"]
          ELSE /\ run' = [run EXCEPT ![r].pc = "wpollDelay"]
               /\ UNCHANGED councilState
    /\ UNCHANGED <<uiVars, page, popup, reauth, je, started, dashVars, tabs, chanVars>>

wpollDelay(r) ==
    /\ variant \in Workers
    /\ run[r].pc = "wpollDelay"
    /\ MayStep(r)
    /\ \E e \in Elapses(run[r]) :
         run' = [run EXCEPT ![r].pc = "wpollFor", ![r].k = 1, ![r].clk = run[r].clk + 1,
                            ![r].expired = e]
    /\ UNCHANGED <<uiVars, page, popup, reauth, je, started, dashVars, workerVars, chanVars>>

\* ------------------------------------------------------------ worker: judge

\* Indices of the agents whose status is complete, in council order.
completedResponses(cs) ==
    SeqOfSet({ j \in 1..Len(cs.models) : cs.responses[j].status = "complete" }, Len(cs.models))

\* Steps 7-8: with no complete agent the run ends in an error; otherwise the
\* judge is delivered to ("tiled") or its tab is opened first ("tabs").
wevaluate(r) ==
    /\ variant \in Workers
    /\ run[r].pc = "wevaluate"
    /\ LET me == run[r]
           completed == completedResponses(councilState)
           rec == [me EXCEPT !.completed = completed,
                             !.responses = [j \in 1..Len(me.council) |->
                                              councilState.responses[j].response]]
       IN IF completed = <<>>
          THEN WorkerEnd(r, rec, councilState,
                         Failure("No council responses received. Judge evaluation skipped."))
          ELSE IF variant = "tiled"
          THEN IF councilState.judgeTabId # NULL
               THEN /\ run' = [run EXCEPT ![r] =
                          [rec EXCEPT !.pc = "wattempt", !.tgt = "judge",
                                      !.dfid = councilState.judgeTabId, !.attempt = 1,
                                      !.call = NoCall]]
                    /\ UNCHANGED councilState
               ELSE WorkerEnd(r, rec, councilState, Failure("Judge tab could not be opened."))
          ELSE IF councilState.judgeModelId \in KnownModels
               THEN /\ run' = [run EXCEPT ![r] = [rec EXCEPT !.pc = "openJudgeAwait"]]
                    /\ UNCHANGED councilState
               ELSE WorkerEnd(r, rec, councilState, Failure("Unknown judge model"))
    /\ UNCHANGED <<uiVars, page, popup, reauth, je, started, dashVars, tabs, chanVars>>

\* pollForResponse: while (Date.now() - start < timeoutMs), up to the await;
\* past the deadline it throws and the run ends in an error.
wjpollWhile(r) ==
    /\ variant \in Workers
    /\ run[r].pc = "wjpollWhile"
    /\ LET me == run[r]
       IN IF me.expired
          THEN /\ WorkerEnd(r, me, councilState, Failure("Judge response timeout"))
               /\ UNCHANGED polled
          ELSE /\ run' = [run EXCEPT ![r].pc = "wjpollAwait", ![r].jPolled = TRUE]
               /\ polled' = polled \cup {<<me.dfid, r>>}
               /\ UNCHANGED councilState
    /\ UNCHANGED <<uiVars, page, popup, reauth, je, started, dashVars, tabs, received, ready>>

\* The judge's pollTab settles; a complete, non-empty answer is parsed and
\* broadcast as the result.
wjpollReply(r) ==
    /\ variant \in Workers
    /\ run[r].pc = "wjpollAwait"
    /\ MayStep(r)
    /\ \E rep \in PollReplies(run[r].dfid) :
         IF rep = "text"
         THEN \E parsed \in BOOLEAN :
                WorkerEnd(r, [run[r] EXCEPT !.judgeText = TextOf(run[r].dfid), !.rep = rep],
                          councilState, judgeResult(TextOf(run[r].dfid), parsed))
         ELSE /\ run' = [run EXCEPT ![r].pc = "wjpollDelay", ![r].rep = rep]
              /\ UNCHANGED councilState
    /\ UNCHANGED <<uiVars, page, popup, reauth, je, started, dashVars, tabs, chanVars>>

wjpollDelay(r) ==
    /\ variant \in Workers
    /\ run[r].pc = "wjpollDelay"
    /\ MayStep(r)
    /\ \E e \in Elapses(run[r]) :
         run' = [run EXCEPT ![r].pc = "wjpollWhile", ![r].clk = run[r].clk + 1,
                            ![r].expired = e]
    /\ UNCHANGED <<uiVars, page, popup, reauth, je, started, dashVars, workerVars, chanVars>>

\* ------------------------------------------------------------ specification

\* ------------------------------------------------------------ worker: reauthenticate

\* handleReauthJudge is not running.
NoReauth == [pc |-> "idle", n |-> 0, win |-> NULL, judge |-> "", tab |-> NULL]

\* A re-authentication that starts the run state afresh.
reauthWriteReset(cs, tabId, windowId) ==
    [NoCouncilState EXCEPT !.judgeTabId = tabId, !.judgeWindowId = windowId]

\* The writes of handleReauthJudge: councilState.judgeTabId / judgeWindowId.
reauthWrite(cs, tabId, windowId) ==
    [cs EXCEPT !.judgeTabId = tabId, !.judgeWindowId = windowId]

\* handleReauthJudge up to its first await: windows.remove of the judge window
\* if there is one, the stored configuration otherwise.
handleReauthJudge ==
    /\ variant \in Workers
    /\ reauth.pc = "idle"
    /\ reauth.n < MaxReauth
    /\ AtAwait
    /\ reauth' = [NoReauth EXCEPT
                    !.pc = IF councilState.judgeWindowId # NULL THEN "remove" ELSE "config",
                    !.n = reauth.n + 1,
                    !.win = councilState.judgeWindowId]
    /\ UNCHANGED <<uiVars, page, popup, je, run, started, dashVars, workerVars, chanVars>>

\* chrome.windows.remove settles; its failure is swallowed.
reauthRemove ==
    /\ reauth.pc = "remove"
    /\ AtAwait
    /\ \E removed \in BOOLEAN :
         tabs' = IF removed THEN tabs \ {reauth.win} ELSE tabs
    /\ reauth' = [reauth EXCEPT !.pc = "config"]
    /\ UNCHANGED <<uiVars, page, popup, je, run, started, dashVars, councilState, chanVars>>

\* chrome.storage.local.get settles: the stored judge and isolation mode.  An
\* unknown judge ends the call ("tiled": success without a window, "tabs":
\* openJudgeTab throws); "tabs" in same-session mode looks for a tab first.
reauthConfig ==
    /\ reauth.pc = "config"
    /\ AtAwait
    /\ \E mode \in IF variant = "tabs" THEN {"incognito", "same-session"} ELSE {"incognito"} :
         reauth' =
            IF selectedJudge \notin KnownModels THEN [reauth EXCEPT !.pc = "idle"]
            ELSE [reauth EXCEPT !.pc = IF mode = "same-session" THEN "find" ELSE "create",
                                !.judge = selectedJudge]
    /\ UNCHANGED <<uiVars, page, popup, je, run, started, dashVars, workerVars, chanVars>>

\* chrome.windows.create settles.  "tiled" stores the tab and the window and
\* answers; "tabs" (openJudgeTab) stores the window and waits for the load.
reauthCreate ==
    /\ reauth.pc = "create"
    /\ AtAwait
    /\ LET fresh == Chan(0, "reauth", reauth.judge)
       IN \E created \in BOOLEAN :
            IF ~created
            THEN /\ reauth' = [reauth EXCEPT !.pc = "idle"]
                 /\ UNCHANGED workerVars
            ELSE /\ tabs' = tabs \cup {fresh}
                 /\ IF variant = "tiled"
                    THEN /\ councilState' = reauthWrite(councilState, fresh, fresh)
                         /\ reauth' = [reauth EXCEPT !.pc = "idle"]
                    ELSE /\ councilState' =
                              reauthWrite(councilState, councilState.judgeTabId, fresh)
                         /\ reauth' = [reauth EXCEPT !.pc = "load", !.tab = fresh]
    /\ UNCHANGED <<uiVars, page, popup, je, run, started, dashVars, chanVars>>

\* "tabs", same session: findTabForModel settles; an open tab of the judge's
\* site is taken, otherwise chrome.tabs.create opens one and its load is awaited.
reauthFind ==
    /\ reauth.pc = "find"
    /\ AtAwait
    /\ LET fresh == Chan(0, "reauth", reauth.judge)
       IN IF tabsOf(reauth.judge) # {}
          THEN \E c \in tabsOf(reauth.judge) :
                 /\ councilState' = reauthWrite(councilState, c, councilState.judgeWindowId)
                 /\ reauth' = [reauth EXCEPT !.pc = "idle"]
                 /\ UNCHANGED tabs
          ELSE \E created \in BOOLEAN :
                 /\ tabs' = IF created THEN tabs \cup {fresh} ELSE tabs
                 /\ reauth' = IF created THEN [reauth EXCEPT !.pc = "load", !.tab = fresh]
                              ELSE [reauth EXCEPT !.pc = "idle"]
                 /\ UNCHANGED councilState
    /\ UNCHANGED <<uiVars, page, popup, je, run, started, dashVars, chanVars>>

\* "tabs": waitForTabLoad settles; openJudgeTab returns the tab id, or the
\* timeout is caught and answered as a failure.
reauthLoad ==
    /\ reauth.pc = "load"
    /\ AtAwait
    /\ \E loaded \in BOOLEAN :
         councilState' = IF loaded
                         THEN reauthWrite(councilState, reauth.tab, councilState.judgeWindowId)
                         ELSE councilState
    /\ reauth' = [reauth EXCEPT !.pc = "idle"]
    /\ UNCHANGED <<uiVars, page, popup, je, run, started, dashVars, tabs, chanVars>>

\* One step of handleReauthJudge.
ReauthStep ==
    \/ handleReauthJudge
    \/ reauthRemove
    \/ reauthConfig
    \/ reauthCreate
    \/ reauthFind
    \/ reauthLoad

\* ------------------------------------------------------------ judge engine: parse

\* The judge's text, line by line.  A line is a heading ("head", lvl hashes,
\* name the title), a table row ("row": "| name | val/lvl |", val < 0 for a
\* placeholder such as X), a numbered ranking line ("rank"), a "Winner: name"
\* line ("winner", after lvl hashes), a "**Justification:**" line ("just") or a
\* "**Summary:**" line ("summary"), name holding what follows the label, or a
\* total stated outside the table ("total": "**Total: val / lvl**"); any other
\* line is "prose".
Line(t, lvl, name, val) == [t |-> t, lvl |-> lvl, name |-> name, val |-> val]

\* The text of a line as a later capture group sees it.
lineText(l) ==
    CASE l.t = "head" -> (IF l.lvl >= 3 THEN "### " ELSE "## ") \o l.name
      [] l.t = "row" -> "| " \o l.name \o " | " \o ToString(l.val) \o "/" \o ToString(l.lvl) \o " |"
      [] l.t = "rank" -> "1. " \o l.name
      [] l.t = "winner" -> "Winner: " \o l.name
      [] l.t = "just" -> "Justification: " \o l.name
      [] l.t = "summary" -> "Summary: " \o l.name
      [] l.t = "total" -> l.name \o ": " \o ToString(l.val) \o " / " \o ToString(l.lvl)
      [] OTHER -> l.name

\* toLowerCase on the titles and names the texts of the model carry.
Lower(str) ==
    CASE str = "ChatGPT" -> "chatgpt"
      [] str = "Gemini" -> "gemini"
      [] str = "Perplexity" -> "perplexity"
      [] str = "Grok" -> "grok"
      [] str = "Final Ranking" -> "final ranking"
      [] OTHER -> str

\* a.toLowerCase().includes(b.toLowerCase()); among the titles and names of
\* the model a string that includes another one starts with it, which is what
\* the `i` regular expression `###?\s*${name}` asks of a heading.
within(a, b) == Lower(a) = Lower(b) \/ <<Lower(a), Lower(b)>> \in {<<"gemini pro", "gemini">>}

\* The least member of a set of indices, 0 if there is none.
firstOf(S) == IF S = {} THEN 0 ELSE CHOOSE i \in S : \A j \in S : i <= j

\* A section that starts at the first heading, whatever its title.
sectionOfFirstHeading(text, title) ==
    LET start == firstOf({ i \in 1..Len(text) : text[i].t = "head" /\ text[i].lvl >= 2 })
        stop == firstOf({ j \in (start + 1)..Len(text) :
                            text[j].t \in {"head", "winner"} /\ text[j].lvl >= 3 })
    IN IF start = 0 THEN <<>>
       ELSE SubSeq(text, start, IF stop = 0 THEN Len(text) ELSE stop - 1)

\* text.match(/###?\s*<title>[\s\S]*?(?=###|$)/i): from the first heading of
\* two or more hashes whose title starts with `title` up to the next "###".
sectionOf(text, title) ==
    LET start == firstOf({ i \in 1..Len(text) :
                             text[i].t = "head" /\ text[i].lvl >= 2 /\ within(text[i].name, title) })
        stop == firstOf({ j \in (start + 1)..Len(text) :
                            text[j].t \in {"head", "winner"} /\ text[j].lvl >= 3 })
    IN IF start = 0 THEN <<>>
       ELSE SubSeq(text, start, IF stop = 0 THEN Len(text) ELSE stop - 1)

\* extractScore: the digits before "/10" of the first row of the criterion, 0
\* without such a row.  "Reasoning" also finds a "Logical Reasoning" row.
extractScore(block, criterion) ==
    LET k == firstOf({ i \in 1..Len(block) :
                         /\ block[i].t = "row" /\ block[i].lvl = 10 /\ block[i].val >= 0
                         /\ \/ block[i].name = criterion
                            \/ (criterion = "Reasoning" /\ block[i].name = "Logical Reasoning") })
    IN IF k = 0 THEN 0 ELSE block[k].val

\* A total that is always computed.
totalOfSum(block, sum) == sum

\* The total, /Total[^|]*\|\s*\**(\d+)\s*\/\s*50\**/i: the digits before "/50"
\* that follow the "|" after the first "Total" of a table row, else the sum.
totalOf(block, sum) ==
    LET k == firstOf({ i \in 1..Len(block) :
                         /\ block[i].t = "row" /\ block[i].lvl = 50 /\ block[i].val >= 0
                         /\ block[i].name = "Total" })
    IN IF k = 0 THEN sum ELSE block[k].val

\* extractModelScore: <<>> for null, else the one score.
extractModelScore(text, name) ==
    LET block == sectionOf(text, name)
        accuracy == extractScore(block, "Accuracy")
        depth == extractScore(block, "Depth")
        clarity == extractScore(block, "Clarity")
        reasoning == IF extractScore(block, "Logical Reasoning") # 0
                     THEN extractScore(block, "Logical Reasoning")
                     ELSE extractScore(block, "Reasoning")
        relevance == extractScore(block, "Relevance")
        j == firstOf({ i \in 1..Len(block) : block[i].t = "just" /\ block[i].name # "" })
    IN IF block = <<>> THEN <<>>
       ELSE << [modelName |-> name, accuracy |-> accuracy, depth |-> depth,
                clarity |-> clarity, reasoning |-> reasoning, relevance |-> relevance,
                total |-> totalOf(block, accuracy + depth + clarity + reasoning + relevance),
                justification |-> IF j = 0 THEN "" ELSE block[j].name] >>

\* extractRanking: the numbered lines of the Final Ranking section, each
\* replaced by the first known name it includes or is included in.
extractRanking(text, modelNames) ==
    LET block == sectionOf(text, "Final Ranking")
        at == SeqOfSet({ i \in 1..Len(block) : block[i].t = "rank" }, Len(block))
        known(nm) == firstOf({ k \in 1..Len(modelNames) :
                                 within(nm, modelNames[k]) \/ within(modelNames[k], nm) })
    IN [k \in 1..Len(at) |->
          IF known(block[at[k]].name) # 0 THEN modelNames[known(block[at[k]].name)]
          ELSE block[at[k]].name]

\* rawText.match(/###?\s*Winner:\s*(.+)/i): <<>> without a match, else the
\* capture.  `\s*` runs over line ends, so after a Winner line with nothing
\* behind the colon the group takes the line that follows.
winnerMatch(text) ==
    LET i == firstOf({ k \in 1..Len(text) :
                         /\ text[k].t = "winner" /\ text[k].lvl >= 2
                         /\ (text[k].name # "" \/ k < Len(text)) })
    IN IF i = 0 THEN <<>>
       ELSE IF text[i].name # "" THEN <<text[i].name>>
       ELSE <<lineText(text[i + 1])>>

\* A parsed flag that is always set.
parsedOfAlways(scores) == TRUE

\* result.parsed = result.scores.length > 0
parsedOf(scores) == scores # <<>>

\* The name that is no string (undefined, a number).
NotAString == "<not a string>"

\* A raw text argument: a string, given by its lines, or null.
RawString(lines) == [kind |-> "string", lines |-> lines]
RawNull == [kind |-> "null", lines |-> <<>>]

\* A names argument: an array, or null.
NamesArray(list) == [kind |-> "array", list |-> list]
NamesNull == [kind |-> "null", list |-> <<>>]

RECURSIVE scoresOf(_, _)
\* The loop over modelNames: the scores pushed for the names given.
scoresOf(text, names) ==
    IF names = <<>> THEN <<>>
    ELSE extractModelScore(text, Head(names)) \o scoresOf(text, Tail(names))

\* The name at which the loop throws, modelName.replace being no function of
\* a name that is no string; Len(list) + 1: the loop ends without a throw.
throwsAt(list) ==
    LET bad == firstOf({ k \in 1..Len(list) : list[k] = NotAString })
    IN IF bad = 0 THEN Len(list) + 1 ELSE bad

\* A parser that lets the error through.
onParseErrorRethrow(result) == [result EXCEPT !.threw = TRUE]

\* catch (e) { result.parsed = false }
onParseError(result) == [result EXCEPT !.parsed = FALSE]

\* parseJudgeResponse; `threw` tells whether an error left the function.
parseJudgeResponse(raw, names) ==
    LET result == [threw |-> FALSE, parsed |-> FALSE, scores |-> <<>>, ranking |-> <<>>,
                   winner |-> "", summary |-> "", rawText |-> raw]
        n == throwsAt(names.list)
        text == raw.lines
    IN IF raw.kind # "string" \/ names.kind # "array"
       THEN \* `for (... of null)`, or text.match on what is no string, throws
            \* before a score is pushed
            onParseError(result)
       ELSE IF n <= Len(names.list)
       THEN onParseError([result EXCEPT !.scores = scoresOf(text, SubSeq(names.list, 1, n - 1))])
       ELSE LET ranking == extractRanking(text, names.list)
                scores == scoresOf(text, names.list)
                sm == firstOf({ i \in 1..Len(text) : text[i].t = "summary" /\ text[i].name # "" })
            IN [result EXCEPT
                  !.scores = scores,
                  !.ranking = ranking,
                  !.winner = IF winnerMatch(text) # <<>> THEN winnerMatch(text)[1]
                             ELSE IF ranking # <<>> THEN ranking[1] ELSE "",
                  !.summary = IF sm = 0 THEN "" ELSE text[sm].name,
                  !.parsed = parsedOf(scores)]

\* ------------------------------------------------------------ judge engine: build

\* A council result handed to buildEvaluationPrompt: the display name, the
\* status and the response ("" for null or the empty string).
ResultOf(id, status, response) ==
    [modelName |-> modelName(id), status |-> status, response |-> response]

\* String.fromCharCode(65 + i), i counted from 0
labelOf(i) == CASE i = 0 -> "A" [] i = 1 -> "B" [] i = 2 -> "C" [] i = 3 -> "D" [] OTHER -> "E"

\* A filter that takes the status alone.
isRespondedByStatus(r) == r.status = "complete"

\* buildEvaluationPrompt: if (r.response && r.status === 'complete')
isResponded(r) == r.response # "" /\ r.status = "complete"

\* respondedModels: the results the filter lets through, in order.
respondedModels(responses) ==
    LET keep == SeqOfSet({ i \in 1..Len(responses) : isResponded(responses[i]) }, Len(responses))
    IN [k \in 1..Len(keep) |->
          [name |-> responses[keep[k]].modelName, response |-> responses[keep[k]].response,
           index |-> keep[k], label |-> labelOf(k - 1)]]

\* failedModels: the names of the others, in order.
failedModels(responses) ==
    LET drop == SeqOfSet({ i \in 1..Len(responses) : ~isResponded(responses[i]) },
                         Len(responses))
    IN [k \in 1..Len(drop) |-> responses[drop[k]].modelName]

\* buildEvaluationPrompt of judge/judge-engine.js with the default template:
\* the question, the did-not-respond note (absent: <<>>), a block
\* "<name> (Response <label>):\n<response>" per responded model, and the
\* output format, written once for "[Model Name]".
buildEvaluationPrompt(originalPrompt, responses) ==
    [by |-> "engine",
     question |-> originalPrompt,
     note |-> failedModels(responses),
     blocks |-> respondedModels(responses),
     headings |-> <<"[Model Name]">>]

\* buildEvaluationPrompt of the older builder: blocks "Council Model <index>
\* (<name>) Response", the index counting the failed models too, the note
\* after the blocks, and the output format written out per responded model.
buildEvaluationPromptOld(originalPrompt, responses) ==
    [by |-> "old",
     question |-> originalPrompt,
     note |-> failedModels(responses),
     blocks |-> respondedModels(responses),
     headings |-> [k \in 1..Len(respondedModels(responses)) |->
                     respondedModels(responses)[k].name]]

\* The statuses and responses a council result can carry when the judge's
\* prompt is built.
ResultStatuses == {"complete", "failed", "timeout"}
ResultTexts == {"", "answer"}

\* The result lists of a council of up to MaxCouncilLen agents.
ResultLists ==
    UNION { { [j \in 1..n |-> ResultOf(AllIds[j], st[j], tx[j])] :
                st \in [1..n -> ResultStatuses], tx \in [1..n -> ResultTexts] } :
            n \in 0..MaxCouncilLen }

NoPrompt == [by |-> "", question |-> "", note |-> <<>>, blocks |-> <<>>, headings |-> <<>>]

\* No JudgeResult yet.
NoOut == [threw |-> FALSE, parsed |-> FALSE, scores |-> <<>>, ranking |-> <<>>,
          winner |-> "", summary |-> "", rawText |-> RawNull]

\* No call of the judge engine is under way.
NoJe == [pc |-> "none", results |-> <<>>, prompt |-> NoPrompt, given |-> <<>>,
         raw |-> RawNull, names |-> NamesNull, out |-> NoOut]

\* The literal scores a judge writes into the output format for one agent:
\* all sevens, and a row of extremes whose total is not their sum.
ScoreCards ==
    { [accuracy |-> 7, depth |-> 7, clarity |-> 7, reasoning |-> 7, relevance |-> 7,
       total |-> 35],
      [accuracy |-> 0, depth |-> 10, clarity |-> 3, reasoning |-> 0, relevance |-> 10,
       total |-> 50] }

\* The output format of DEFAULT_JUDGE_PROMPT for one agent, filled in.
filledBlock(name, card) ==
    << Line("head", 3, name, 0),
       Line("row", 10, "Accuracy", card.accuracy),
       Line("row", 10, "Depth", card.depth),
       Line("row", 10, "Clarity", card.clarity),
       Line("row", 10, "Logical Reasoning", card.reasoning),
       Line("row", 10, "Relevance", card.relevance),
       Line("row", 50, "Total", card.total),
       Line("just", 0, "analysis", 0) >>

RECURSIVE filledBlocks(_, _)
filledBlocks(names, cards) ==
    IF names = <<>> THEN <<>>
    ELSE filledBlock(Head(names), Head(cards)) \o filledBlocks(Tail(names), Tail(cards))

\* The output format of a built prompt, completed for its responded models:
\* "## Evaluation Results", a block per model, "### Final Ranking" with a line
\* per model, "### Winner:" and "**Summary:**".
filledTemplate(prompt, cards) ==
    LET names == [k \in 1..Len(prompt.blocks) |-> prompt.blocks[k].name]
    IN << Line("head", 2, "Evaluation Results", 0) >>
       \o filledBlocks(names, cards)
       \o << Line("head", 3, "Final Ranking", 0) >>
       \o [k \in 1..Len(names) |-> Line("rank", 0, names[k], cards[k].total)]
       \o << Line("winner", 3, names[1], 0), Line("summary", 0, "why", 0) >>

\* Lines a judge may write: headings in another case and at two hashes, scores
\* out of range, names no one knows, a Winner line with nothing behind it and
\* one without hashes.
JudgeLines ==
    { Line("head", 3, "ChatGPT", 0), Line("head", 2, "gemini pro", 0),
      Line("head", 3, "Final Ranking", 0),
      Line("row", 10, "Accuracy", 7), Line("row", 10, "Accuracy", 15),
      Line("row", 10, "Reasoning", 9), Line("row", 50, "Total", 99),
      Line("total", 50, "Total", 42),
      Line("rank", 0, "gemini pro", 0), Line("rank", 0, "Nobody", 0),
      Line("winner", 3, "ChatGPT", 0), Line("winner", 3, "", 0),
      Line("winner", 0, "Gemini", 0) }

\* The raw texts handed to parseJudgeResponse: up to MaxLines lines, or null.
RawTexts ==
    {RawNull} \cup { RawString(t) : t \in UNION { [1..n -> JudgeLines] : n \in 0..MaxLines } }

\* The names handed to parseJudgeResponse: the completed models' names, a
\* list with an entry that is no string, null.
NameArgs ==
    { NamesArray(<<"ChatGPT", "Gemini">>), NamesArray(<<"ChatGPT", NotAString, "Gemini">>),
      NamesNull }

\* A caller builds the judge's prompt from its result list.
callBuild ==
    /\ je.pc = "results"
    /\ \E old \in BOOLEAN :
         je' = [je EXCEPT !.pc = "built",
                          !.prompt = IF old THEN buildEvaluationPromptOld("question", je.results)
                                     ELSE buildEvaluationPrompt("question", je.results)]
    /\ UNCHANGED <<uiVars, page, popup, reauth, run, started, dashVars, workerVars, chanVars>>

\* The judge answers a built prompt: the output format completed with literal
\* scores for every responded model.
judgeAnswers ==
    /\ je.pc = "built"
    /\ je.prompt.blocks # <<>>
    /\ \E cards \in [1..Len(je.prompt.blocks) -> ScoreCards] :
         je' = [je EXCEPT !.pc = "text",
                          !.given = cards,
                          !.raw = RawString(filledTemplate(je.prompt, cards)),
                          !.names = NamesArray([k \in 1..Len(je.prompt.blocks) |->
                                                  je.prompt.blocks[k].name])]
    /\ UNCHANGED <<uiVars, page, popup, reauth, run, started, dashVars, workerVars, chanVars>>

\* A caller parses the judge's text.
callParse ==
    /\ je.pc = "text"
    /\ je' = [je EXCEPT !.pc = "parsed", !.out = parseJudgeResponse(je.raw, je.names)]
    /\ UNCHANGED <<uiVars, page, popup, reauth, run, started, dashVars, workerVars, chanVars>>

\* The JudgeResult handleSubmit makes up in place of a verdict:
\* { parsed: false, rawText: <name>:\n<response> ... }, with no scores.
fallbackJudgeResult(results) ==
    LET done == respondedModels(results)
    IN [NoOut EXCEPT !.rawText = RawString([k \in 1..Len(done) |->
                                              Line("prose", 0, done[k].name, 0)])]

\* A caller with a completed response and no verdict emits the fallback.
callFallback ==
    /\ je.pc = "results"
    /\ respondedModels(je.results) # <<>>
    /\ je' = [je EXCEPT !.pc = "fallback", !.out = fallbackJudgeResult(je.results)]
    /\ UNCHANGED <<uiVars, page, popup, reauth, run, started, dashVars, workerVars, chanVars>>

\* ------------------------------------------------------------ content script

\* What a handler passes to sendResponse; seen is the text of the last
\* assistant message in the page when the handler ran ("none": no message).
Reply(success, complete, response, seen) ==
    [success |-> success, complete |-> complete, response |-> response, seen |-> seen]

NoReply == Reply(FALSE, FALSE, "", "none")

\* One agent page (a frame or a tab) and the delivery now made to it.
\* listeners: the onMessage handlers the page holds; submits: the submit
\* steps the handlers ran for the prompt of this delivery; scriptErr: the
\* executeScript of the attempt now made was rejected; msg: the message the
\* handlers ran on last; replies: the sendResponse calls they made for it;
\* reply: the first of them, which is the one the sender gets.
NoPage == [pc |-> "idle", attempt |-> 0, listeners |-> 0, submits |-> 0,
           delivers |-> 0, result |-> "none", scriptErr |-> FALSE,
           msg |-> "none", replies |-> 0, reply |-> NoReply]

\* The attempts one delivery makes: injectAndSend loops, injectIntoTab does not.
attemptsOf(v) == IF v \in Dashboards THEN MAX_RETRIES ELSE 1

\* injector.js, run by executeScript: the function body runs again and calls
\* chrome.runtime.onMessage.addListener with a new handler.
addListener(n) == n + 1

\* injectAndSend / injectIntoTab is called for a prompt.
deliverStart ==
    /\ page.pc \in {"idle", "ok", "throw"}
    /\ page.delivers < MaxDelivers
    /\ page' = [page EXCEPT !.pc = "inject", !.attempt = 1, !.submits = 0,
                            !.delivers = @ + 1, !.result = "none", !.scriptErr = FALSE,
                            !.msg = "none", !.replies = 0, !.reply = NoReply]
    /\ UNCHANGED <<uiVars, popup, reauth, je, run, started, dashVars, workerVars, chanVars>>

\* The attempt failed: the loop goes on, or the last attempt throws.
attemptFailed(p) ==
    IF p.attempt < attemptsOf(variant)
    THEN [p EXCEPT !.pc = "inject", !.attempt = @ + 1]
    ELSE [p EXCEPT !.pc = "throw", !.result = "throw"]

\* A delivery that takes a failed executeScript for a failed attempt.
afterExecuteScriptFatal(p, injected) ==
    IF injected
    THEN [p EXCEPT !.pc = "send", !.listeners = addListener(@), !.scriptErr = FALSE]
    ELSE attemptFailed([p EXCEPT !.scriptErr = TRUE])

\* try { await chrome.scripting.executeScript(...) } catch (e) { warn }: the
\* error is logged and the attempt goes on to its delay and its sendMessage.
afterExecuteScript(p, injected) ==
    [p EXCEPT !.pc = "send",
              !.listeners = IF injected THEN addListener(@) ELSE @,
              !.scriptErr = ~injected]

executeScript ==
    /\ page.pc = "inject"
    /\ \E injected \in BOOLEAN : page' = afterExecuteScript(page, injected)
    /\ UNCHANGED <<uiVars, popup, reauth, je, run, started, dashVars, workerVars, chanVars>>

\* How the handlers of the page fare on one INJECT_PROMPT: no adapter or no
\* input element, setPrompt throws inside the try block, the submit step
\* throws inside the timer callback, or the prompt is set and submitted.
InjectOutcomes == {"noInput", "setThrows", "submitThrows", "ok"}

\* The sendResponse calls one handler makes on INJECT_PROMPT: one in each
\* branch, except that an error thrown in the setTimeout callback is outside
\* the try block and leaves before sendResponse.
injectReplies(o) == IF o = "submitThrows" THEN 0 ELSE 1

\* The INJECT_PROMPT message and its reply.  Without a handler sendMessage
\* sets lastError.  Otherwise every handler of the page runs on the message,
\* each with its own sendResponse calls; with the input found each sets the
\* prompt and runs its submit step after 500 ms.  With no reply the sender's
\* promise stays pending.
sendInjectPrompt ==
    /\ page.pc = "send"
    /\ \/ /\ page.listeners = 0
          /\ page' = attemptFailed(page)
       \/ /\ page.listeners > 0
          /\ \E o \in InjectOutcomes :
               LET n == page.listeners * injectReplies(o)
                   p == [page EXCEPT !.msg = "INJECT_PROMPT", !.replies = n,
                                     !.reply = Reply(o = "ok", FALSE, "", "none")]
               IN page' = CASE o = "ok" -> [p EXCEPT !.pc = "ok", !.result = "ok",
                                                     !.submits = @ + page.listeners]
                            [] o = "submitThrows" ->
                                 [p EXCEPT !.pc = "lost", !.submits = @ + page.listeners]
                            [] OTHER -> attemptFailed(p)
    /\ UNCHANGED <<uiVars, popup, reauth, je, run, started, dashVars, workerVars, chanVars>>

\* The page goes away while the sender waits: the callback runs with lastError.
portCloses ==
    /\ page.pc = "lost"
    /\ page' = attemptFailed(page)
    /\ UNCHANGED <<uiVars, popup, reauth, je, run, started, dashVars, workerVars, chanVars>>

\* What a poll can find in the page: a stop button or none, and the last
\* assistant message ("none": no message yet, "": an empty one, "partial": one
\* still being written, "text": a finished one).
DomStates ==
    { [stop |-> TRUE, last |-> l] : l \in {"none", "", "partial"} }
        \cup { [stop |-> FALSE, last |-> l] : l \in {"none", "", "text"} }

\* adapter.isComplete(): no stop button and at least one assistant message
isComplete(dom) == ~dom.stop /\ dom.last # "none"

\* adapter.getResponse(): the trimmed text of the last assistant message
getResponse(dom) == IF dom.last = "none" THEN "" ELSE dom.last

\* A handler that reads the text whatever the completion flag.
responseOfAlways(dom) == getResponse(dom)

\* const response = complete ? adapter.getResponse() : ''
responseOf(dom) == IF isComplete(dom) THEN getResponse(dom) ELSE ""

\* The EXTRACT_RESPONSE message: every handler of the page reads the flag and
\* the text in one synchronous stretch and replies; an error thrown by the
\* adapter is caught and replied.
sendExtractResponse ==
    /\ page.pc \in {"idle", "ok", "throw"}
    /\ page.listeners > 0
    /\ \E dom \in DomStates, throws \in BOOLEAN :
         page' = [page EXCEPT
                    !.msg = "EXTRACT_RESPONSE", !.replies = page.listeners,
                    !.reply = IF throws THEN Reply(FALSE, FALSE, "", dom.last)
                              ELSE Reply(TRUE, isComplete(dom), responseOf(dom), dom.last)]
    /\ UNCHANGED <<uiVars, popup, reauth, je, run, started, dashVars, workerVars, chanVars>>

\* ------------------------------------------------------------ popup and home page

\* No ASK_COUNCIL message.
NoMsg == [council |-> <<>>, judge |-> ""]

\* A message the worker broadcasts; parsed is `result.parsed &&
\* result.scores.length > 0` of a JUDGE_RESULT.
Event(type, parsed) == [type |-> type, parsed |-> parsed]

\* The UI before init() has run.  disabled is btnAskCouncil.disabled (btnSend
\* on the home page), panel whether the results panel with the Re-evaluate
\* button is displayed, state the class of the status indicator, wait whether
\* the reply to a sent ASK_COUNCIL is outstanding, msg the message the last
\* handler sent, pipes what the pipelines the worker runs have yet to
\* broadcast, last the handler that ran last.
NoPopup ==
    [ui |-> "off", hasPrompt |-> FALSE, isRunning |-> FALSE, disabled |-> TRUE,
     panel |-> FALSE, state |-> "idle", wait |-> FALSE, asks |-> 0, msg |-> NoMsg,
     pipes |-> <<>>, last |-> [op |-> "none", id |-> ""]]

\* updateUI: the send control.  The popup also disables it while running.
updateUI(p, sel) ==
    [p EXCEPT !.disabled = btnSendDisabled(Len(sel), p.hasPrompt)
                           \/ (variant \in Workers /\ p.isRunning)]

\* A toggle that adds whatever the size.
toggledNoCap(sel, id) ==
    IF id \in Range(sel) THEN FilterSeq(sel, Range(sel) \ {id}) ELSE Append(sel, id)

\* toggleCouncilModel / toggleModel on a Set kept in insertion order.
toggled(sel, id) ==
    IF id \in Range(sel) THEN FilterSeq(sel, Range(sel) \ {id})
    ELSE IF Len(sel) >= MAX_COUNCIL THEN sel
    ELSE Append(sel, id)

\* A click on the card of agent id; the cards are those of MODELS.
toggleCouncilModel(id) ==
    /\ popup.ui = "on"
    /\ selectedCouncil' = toggled(selectedCouncil, id)
    /\ LET p == [popup EXCEPT !.msg = NoMsg, !.last = [op |-> "toggle", id |-> id]]
       IN popup' = IF id \notin Range(selectedCouncil) /\ Len(selectedCouncil) >= MAX_COUNCIL
                   THEN p  \* return before updateUI
                   ELSE updateUI(p, selectedCouncil')
    /\ UNCHANGED <<variant, selectedJudge, page, reauth, je, run, started, dashVars, workerVars, chanVars>>

\* promptInput 'input': the prompt becomes empty or non-empty; updateUI.
promptInputs(b) ==
    /\ popup.ui = "on"
    /\ popup' = updateUI([popup EXCEPT !.hasPrompt = b, !.msg = NoMsg,
                                       !.last = [op |-> "input", id |-> ""]],
                         selectedCouncil)
    /\ UNCHANGED <<uiVars, page, reauth, je, run, started, dashVars, workerVars, chanVars>>

\* judgeSelect 'change': the options are the agents of MODELS.
judgeChange(id) ==
    /\ popup.ui = "on"
    /\ selectedJudge' = id
    /\ popup' = [popup EXCEPT !.msg = NoMsg, !.last = [op |-> "judge", id |-> id]]
    /\ UNCHANGED <<variant, selectedCouncil, page, reauth, je, run, started, dashVars, workerVars, chanVars>>

\* A filter that lets the judge through.
broadcastTargetsAll(sel, judge) == sel

\* councilModels.filter(id => id !== selectedJudge)
broadcastTargets(sel, judge) == FilterSeq(sel, Range(sel) \ {judge})

\* The popup's handleAskCouncil up to its await, run by a click on Ask Council
\* (an enabled control) or on Re-evaluate (a displayed results panel).
askCouncilClick ==
    /\ popup.ui = "on"
    /\ variant \in Workers
    /\ ~popup.disabled \/ popup.panel
    /\ popup.asks < MaxAsks
    /\ LET p == [popup EXCEPT !.msg = NoMsg, !.last = [op |-> "ask", id |-> ""]]
           targets == broadcastTargets(selectedCouncil, selectedJudge)
       IN popup' =
            IF ~popup.hasPrompt \/ Len(selectedCouncil) < MIN_COUNCIL THEN p
            ELSE IF Len(targets) < MIN_COUNCIL THEN [p EXCEPT !.state = "error"]
            ELSE [updateUI([p EXCEPT !.isRunning = TRUE], selectedCouncil) EXCEPT
                    !.state = "running", !.panel = FALSE, !.wait = TRUE,
                    !.asks = @ + 1,
                    !.msg = [council |-> targets, judge |-> selectedJudge]]
    /\ UNCHANGED <<uiVars, page, reauth, je, run, started, dashVars, workerVars, chanVars>>

\* What a worker broadcasts from the terminal event of a run on:
\* broadcastResult then broadcastStatus('Evaluation complete!'), or
\* broadcastError.
broadcastsAtEnd(out) ==
    CASE out.kind = "result" ->
            << Event("JUDGE_RESULT", out.parsed), Event("STATUS_UPDATE", FALSE) >>
      [] out.kind = "error" -> << Event("ERROR", FALSE) >>
      [] OTHER -> <<>>

\* What the popup can receive of one pipeline: a status update, then the
\* broadcasts of its end.
Scripts ==
    { << Event("STATUS_UPDATE", FALSE) >> \o broadcastsAtEnd(out) :
        out \in {Failure("Judge response timeout"), Result(TRUE, <<>>), Result(FALSE, <<>>)} }

\* await chrome.runtime.sendMessage settles: the worker has taken the message
\* and replied, and its pipeline starts to broadcast; or the promise is
\* rejected and the catch block runs.
sendMessageSettles ==
    /\ popup.ui = "on"
    /\ popup.wait
    /\ LET p == [popup EXCEPT !.wait = FALSE, !.msg = NoMsg, !.last = [op |-> "settle", id |-> ""]]
       IN \/ \E sc \in Scripts : popup' = [p EXCEPT !.pipes = Append(@, sc)]
          \/ popup' = updateUI([p EXCEPT !.state = "error", !.isRunning = FALSE],
                               selectedCouncil)
    /\ UNCHANGED <<uiVars, page, reauth, je, run, started, dashVars, workerVars, chanVars>>

\* handleJudgeResult
handleJudgeResult(p, parsed) ==
    [updateUI([p EXCEPT !.isRunning = FALSE], selectedCouncil) EXCEPT
        !.panel = TRUE, !.state = IF parsed THEN "success" ELSE "warning"]

\* chrome.runtime.onMessage of the popup: the next broadcast of a pipeline
\* arrives.
onMessage ==
    /\ popup.ui = "on"
    /\ \E k \in 1..Len(popup.pipes) :
         /\ popup.pipes[k] # <<>>
         /\ LET ev == Head(popup.pipes[k])
                p == [popup EXCEPT !.pipes[k] = Tail(@), !.msg = NoMsg,
                                   !.last = [op |-> ev.type, id |-> ""]]
            IN popup' =
                 CASE ev.type = "STATUS_UPDATE" -> [p EXCEPT !.state = "running"]
                   [] ev.type = "JUDGE_RESULT" -> handleJudgeResult(p, ev.parsed)
                   [] OTHER -> updateUI([p EXCEPT !.state = "error", !.isRunning = FALSE],
                                        selectedCouncil)
    /\ UNCHANGED <<uiVars, page, reauth, je, run, started, dashVars, workerVars, chanVars>>

Init ==
    /\ variant \in Variants
    /\ selectedCouncil \in CouncilLists
    /\ selectedJudge \in JudgeIds
    /\ run = [r \in RunIds |-> InitRun]
    /\ started = 0
    /\ iframePanels = <<>>
    /\ domFrames = <<>>
    /\ lastResult = NoOutcome
    /\ shownBy = 0
    /\ view = "home"
    /\ councilState = NoCouncilState
    /\ tabs = {}
    /\ received = {}
    /\ ready = {}
    /\ polled = {}
    /\ reauth = NoReauth
    /\ je = NoJe
    /\ popup = NoPopup
    /\ page = NoPage

\* One step of run r's pipeline in a dashboard.
DashStep(r) ==
    \/ waitForIframeLoads(r)
    \/ discoverFirst(r)
    \/ discoverRetry(r)
    \/ councilLoop(r)
    \/ rediscover(r)
    \/ attemptSend(r)
    \/ sendReply(r)
    \/ backoff(r)
    \/ interDelay(r)
    \/ pollInit(r)
    \/ pollWhile(r)
    \/ pollFor(r)
    \/ pollReply(r)
    \/ pollDelay(r)
    \/ evaluate(r)
    \/ jpollWhile(r)
    \/ jpollReply(r)
    \/ jpollDelay(r)

\* One step of run r's pipeline in a worker.
WorkerStep(r) ==
    \/ openHead(r)
    \/ openAwait(r)
    \/ openJudgeHead(r)
    \/ openJudgeAwait(r)
    \/ waitForTabLoads(r)
    \/ injectHead(r)
    \/ injectIntoTabSend(r)
    \/ injectIntoTabReply(r)
    \/ winterDelay(r)
    \/ wpollFor(r)
    \/ wpollReply(r)
    \/ wpollEnd(r)
    \/ wpollDelay(r)
    \/ wevaluate(r)
    \/ wjpollWhile(r)
    \/ wjpollReply(r)
    \/ wjpollDelay(r)

\* Runs one after the other: a submit, or leaving the split screen, only when
\* no run is in flight.
Next ==
    \/ \E r \in 1..MaxSeqRuns : Quiet /\ handleSubmit(r)
    \/ \E r \in 1..MaxSeqRuns : Quiet /\ handleAskCouncil(r)
    \/ \E r \in RunIds : DashStep(r)
    \/ \E r \in RunIds : WorkerStep(r)
    \/ \E c \in Asked : Generate(c)
    \/ Quiet /\ goBackToHome
    \/ Quiet /\ navHome

Spec == Init /\ [][Next]_vars

\* Every awaited call settles: the continuation of a run that is waiting on a
\* timer, a reply or a rejection is eventually run by the event loop.
SpecLive == Spec /\ WF_vars(\E r \in RunIds : DashStep(r) \/ WorkerStep(r))

\* The dashboards with the user free to leave the split screen and to submit
\* again while a run is in flight.
InitConc == Init /\ variant \in Dashboards /\ selectedCouncil = SubSeq(AllIds, 1, MIN_COUNCIL)

\* The exploration follows the first run to its end and leaves a later run
\* at its first await.
Followed == { r \in RunIds : \A r2 \in RunIds : r <= r2 }

NextConc ==
    \/ \E r \in RunIds : handleSubmit(r)
    \/ \E r \in Followed : DashStep(r)
    \/ \E c \in Asked : Generate(c)
    \/ goBackToHome

SpecConc == InitConc /\ [][NextConc]_vars

\* The worker with REAUTHENTICATE_JUDGE arriving at any await of a run.
InitReauth == Init /\ variant \in Workers /\ selectedCouncil = SubSeq(AllIds, 1, MIN_COUNCIL)

NextReauth ==
    \/ \E r \in 1..MaxSeqRuns : Quiet /\ handleAskCouncil(r)
    \/ \E r \in RunIds : WorkerStep(r)
    \/ \E c \in Asked : Generate(c)
    \/ ReauthStep

SpecReauth == InitReauth /\ [][NextReauth]_vars

\* The judge engine on its own: build for every result list of a council,
\* parse for every raw text, and parse for the built format filled in.
InitJudge ==
    /\ variant = "split"
    /\ selectedCouncil = SubSeq(AllIds, 1, MIN_COUNCIL)
    /\ selectedJudge = DEFAULT_JUDGE
    /\ run = [r \in RunIds |-> InitRun]
    /\ started = 0
    /\ iframePanels = <<>>
    /\ domFrames = <<>>
    /\ lastResult = NoOutcome
    /\ shownBy = 0
    /\ view = "home"
    /\ councilState = NoCouncilState
    /\ tabs = {}
    /\ received = {}
    /\ ready = {}
    /\ polled = {}
    /\ reauth = NoReauth
    /\ popup = NoPopup
    /\ page = NoPage
    /\ \/ \E rs \in ResultLists : je = [NoJe EXCEPT !.pc = "results", !.results = rs]
       \/ \E raw \in RawTexts : \E names \in NameArgs :
             je = [NoJe EXCEPT !.pc = "text", !.raw = raw, !.names = names]

NextJudge ==
    \/ callBuild
    \/ judgeAnswers
    \/ callParse
    \/ callFallback

SpecJudge == InitJudge /\ [][NextJudge]_vars

\* The popup (workers) and the home page (dashboards) on their own: a stored
\* selection of at most MAX_COUNCIL agents is loaded, the user toggles cards,
\* edits the prompt, picks a judge and asks the council.
SelectionsFrom(ids) ==
    { FilterSeq(ids, S) : S \in { T \in SUBSET Range(ids) : Cardinality(T) <= MAX_COUNCIL } }

InitPopup ==
    /\ variant \in {"tiled", "iframe"}
    /\ selectedCouncil \in SelectionsFrom(AllIds)
    /\ selectedJudge \in JudgeIds
    /\ run = [r \in RunIds |-> InitRun]
    /\ started = 0
    /\ iframePanels = <<>>
    /\ domFrames = <<>>
    /\ lastResult = NoOutcome
    /\ shownBy = 0
    /\ view = "home"
    /\ councilState = NoCouncilState
    /\ tabs = {}
    /\ received = {}
    /\ ready = {}
    /\ polled = {}
    /\ reauth = NoReauth
    /\ je = NoJe
    /\ popup = updateUI([NoPopup EXCEPT !.ui = "on"], selectedCouncil)
    /\ page = NoPage

NextPopup ==
    \/ \E id \in KnownModels : toggleCouncilModel(id)
    \/ \E b \in BOOLEAN : promptInputs(b)
    \/ \E id \in KnownModels : judgeChange(id)
    \/ askCouncilClick
    \/ sendMessageSettles
    \/ onMessage

SpecPopup == InitPopup /\ [][NextPopup]_vars

\* The worker asked again after a run has ended: what is left of the first
\* run are the tabs it opened (those the user has not closed), each holding
\* the conversation of that run, and its locals are gone.  The second run
\* finds the tabs again.
EarlierTabs == { Chan(1, "council", id) : id \in Range(SubSeq(AllIds, 1, MIN_COUNCIL)) }

InitReuse ==
    /\ variant \in Workers
    /\ selectedCouncil = SubSeq(AllIds, 1, MIN_COUNCIL)
    /\ selectedJudge \in JudgeIds
    /\ run = [r \in RunIds |->
                IF r = 1
                THEN [InitRun EXCEPT !.pc = "done", !.council = selectedCouncil,
                                     !.judge = selectedJudge, !.collected = "all",
                                     !.outcome = Failure("Judge response timeout")]
                ELSE InitRun]
    /\ started = 1
    /\ iframePanels = <<>>
    /\ domFrames = <<>>
    /\ lastResult = NoOutcome
    /\ shownBy = 0
    /\ view = "home"
    /\ councilState = [NoCouncilState EXCEPT !.owner = 1]
    /\ tabs \in SUBSET EarlierTabs
    /\ received = { <<c, 1>> : c \in tabs }
    /\ ready = received
    /\ polled = received
    /\ reauth = NoReauth
    /\ je = NoJe
    /\ popup = NoPopup
    /\ page = NoPage

NextReuse ==
    \/ \E r \in RunIds : Quiet /\ handleAskCouncil(r)
    \/ \E r \in RunIds : WorkerStep(r)
    \/ \E c \in Asked : Generate(c)

SpecReuse == InitReuse /\ [][NextReuse]_vars

\* The worker asked again while a run is in flight: the router hands every
\* ASK_COUNCIL to handleAskCouncil.  The exploration follows the first run to
\* its end; a later run goes through its first synchronous stretch and is left
\* at its first await.
InitAsk == Init /\ variant \in Workers /\ selectedCouncil = SubSeq(AllIds, 1, MIN_COUNCIL)

NextAsk ==
    \/ \E r \in RunIds : handleAskCouncil(r)
    \/ \E r \in RunIds : (r \in Followed \/ run[r].pc = "open") /\ WorkerStep(r)
    \/ \E c \in Asked : Generate(c)

SpecAsk == InitAsk /\ [][NextAsk]_vars

\* The program counters at which a run waits for the remote side's reply to a
\* call that no timer races: getAllFrames, the INJECT_PROMPT message and the
\* EXTRACT_RESPONSE message.
RemoteCalls == {"disc1", "disc2", "rediscover", "send", "wsend",
                "pollAwait", "jpollAwait", "wpollAwait", "wjpollAwait"}

\* Timers fire and synchronous stretches run on; the reply to a remote call
\* may never come.
SpecSilent ==
    Spec /\ WF_vars(\E r \in RunIds :
                       run[r].pc \notin RemoteCalls /\ (DashStep(r) \/ WorkerStep(r)))

\* Deliveries to one agent page, on any build.
InitInject == Init

NextInject ==
    \/ deliverStart
    \/ executeScript
    \/ sendInjectPrompt
    \/ portCloses
    \/ sendExtractResponse

SpecInject == InitInject /\ [][NextInject]_vars

\* ------------------------------------------------------------ properties

\* The channel run r uses for the council agent at index j (NULL: none).
ChannelOf(r, j) ==
    IF variant \in Dashboards
    THEN FrameOf(iframePanels, panelKey(run[r].council[j], "council"))
    ELSE IF councilState.owner = r /\ j <= Len(councilState.responses)
         THEN councilState.responses[j].tabId ELSE NULL

\* Is the council agent at index j of run r complete?
IsComplete(r, j) ==
    IF variant \in Dashboards
    THEN j <= Len(run[r].responses) /\ run[r].responses[j] # NoText
    ELSE /\ councilState.owner = r
         /\ j <= Len(councilState.responses)
         /\ councilState.responses[j].status = "complete"

\* The number of council agents of run r that are complete.
CompleteCount(r) == Cardinality({ j \in 1..Len(run[r].council) : IsComplete(r, j) })

\* The errors that tell the caller that there is no usable council response.
NoUsableMessages ==
    {"No models accepted the prompt", "No council responses received.",
     "No council responses received. Judge evaluation skipped."}

\* The run whose council state the program holds: the one submitted last (a
\* later submit resets councilState and replaces iframePanels).
Current == { r \in RunIds : r = started }

\* Run r has sent, or is sending, something to the judge.
JudgeInvoked(r) == run[r].tgt = "judge" \/ run[r].jDelivered \/ run[r].jPolled

\* C1: every run that a submit started eventually ends, and it ends with a
\* result (parsed or raw fallback) or with an explicit error, never with neither.
EveryRunEnds ==
    \A r \in RunIds :
        InFlight(r) ~> (run[r].pc = "done" /\ run[r].outcome.kind \in {"result", "error"})

\* C1 witness: a run has ended with a result and the council round before it
\* had run to its end.
C1Witness ==
    \E r \in RunIds :
        run[r].pc = "done" /\ run[r].outcome.kind = "result" /\ run[r].collected # "no"

\* C2: a run whose council round ends with no agent complete ends with the
\* error that there are no usable responses, and never delivers to nor polls
\* the judge; a run that delivers to the judge has an agent complete.
ZeroCompleteNoJudge ==
    \A r \in Current :
        /\ (run[r].pc = "done" /\ run[r].collected # "no" /\ CompleteCount(r) = 0)
              => (run[r].outcome.kind = "error" /\ run[r].outcome.msg \in NoUsableMessages)
        /\ (run[r].collected # "no" /\ CompleteCount(r) = 0) => ~JudgeInvoked(r)
        /\ JudgeInvoked(r) => CompleteCount(r) >= 1

\* C2 witness: the council round of a run ran to its deadline with prompts
\* delivered and no agent complete, and the run has ended.
C2Witness ==
    \E r \in RunIds :
        /\ run[r].pc = "done"
        /\ run[r].collected = "deadline"
        /\ CompleteCount(r) = 0
        /\ \E c \in Live : <<c, r>> \in received

\* C3: a run that ends with an agent complete and without a judge answer ends
\* with the fallback result: parsed = false, rawText the completed agents'
\* blocks in council order.
FallbackOnJudgeFailure ==
    \A r \in Current :
        (/\ run[r].pc = "done"
         /\ run[r].collected # "no"
         /\ CompleteCount(r) >= 1
         /\ run[r].judgeText = NoText)
           => run[r].outcome = fallbackResult(run[r].council, run[r].responses)

\* The errors with which a run can end before its council round has ended.
SetupErrors == {"window create failed"}

\* The council agent at index j of run r has been given the prompt.
Delivered(r, j) == ChannelOf(r, j) # NULL /\ <<ChannelOf(r, j), r>> \in received

OnlyValidListsRun ==
    \A r \in RunIds :
        run[r].pc \notin {"idle", "rejected"}
           => (Len(run[r].council) >= MIN_COUNCIL /\ Len(run[r].council) <= MAX_COUNCIL)

\* The status the worker holds for the agent at index j ("": none).
StatusOf(cs, j) == IF j <= Len(cs.responses) THEN cs.responses[j].status ELSE ""

\* C6: within one run, a step never changes a status that is complete, failed
\* or timeout.
TerminalStatusKept ==
    [][\A j \in 1..MaxCouncilLen :
          (councilState'.owner = councilState.owner /\ StatusOf(councilState, j) \in TerminalStatus)
             => StatusOf(councilState', j) = StatusOf(councilState, j)]_vars

\* C6 witness: an agent is failed, and the run it belongs to has gone through
\* the injection loop and the polling phase since.
C6Witness ==
    \E r \in RunIds :
        /\ councilState.owner = r
        /\ run[r].pc = "done"
        /\ run[r].collected # "no"
        /\ \E j \in 1..Len(councilState.responses) :
              /\ councilState.responses[j].status = "failed"
              /\ councilState.responses[j].tabId # NULL

\* C7: a run delivers prompts to, and polls, only channels created for it.
RunsKeepToOwnChannels ==
    \A p \in received \cup polled : p[1].run = p[2]

\* A delivery attempt or a poll is sent on behalf of run r in this step.
Sends(r) ==
    /\ run'[r].pc \in {"send", "pollAwait", "jpollAwait"}
    /\ run'[r].pc # run[r].pc

\* A result of run r is stored and shown in this step.
Shows(r) == run[r].pc # "done" /\ run'[r].pc = "done" /\ run'[r].outcome.kind = "result"

\* C8: once a run is aborted, no step sends a delivery attempt or a poll for
\* it, and none stores or shows a result of it.
AbortedRunIsSilent ==
    [][\A r \in RunIds : run[r].aborted => (~Sends(r) /\ ~Shows(r))]_vars

\* The agent at index j of run r is still waited for in the polling phase.
StillWaiting(r, j) ==
    IF variant \in Dashboards THEN run[r].council[j] \in run[r].pending
    ELSE councilState.responses[j].status = "waiting"

\* A step that marks agent j of run r complete while the poll run r is
\* waiting on stays unanswered.
CompletesMeanwhile(r, j) ==
    /\ Next
    /\ run'[r].pc = run[r].pc
    /\ run'[r].k = run[r].k
    /\ IsComplete(r, j)'

\* C9: while the reply to one agent's poll is outstanding, another waiting
\* agent whose answer is ready can be marked complete.
PollsDoNotBlock ==
    \A r \in RunIds : \A j \in 1..Len(run[r].council) :
        (/\ run[r].pc \in {"pollAwait", "wpollAwait"}
         /\ ChannelOf(r, j) # NULL
         /\ ChannelOf(r, j) # run[r].dfid
         /\ StillWaiting(r, j)
         /\ <<ChannelOf(r, j), r>> \in ready)
           => ENABLED CompletesMeanwhile(r, j)

\* C10: a delivery call makes at most MAX_RETRIES attempts, no attempt follows
\* a successful one, it returns only on a successful reply and it throws only
\* with no successful reply, carrying the reason of its last attempt.
DeliverIsBounded ==
    \A r \in RunIds :
        LET c == run[r].call
        IN /\ c.n <= MAX_RETRIES
           /\ Len(c.log) <= c.n
           /\ \A k \in 1..Len(c.log) : c.log[k] = "ok" => k = Len(c.log)
           /\ c.ret = "ok" => (c.log # <<>> /\ c.log[Len(c.log)] = "ok")
           /\ c.ret = "throw" => (c.log # <<>> /\ c.log[Len(c.log)] # "ok"
                                  /\ c.reason = c.log[Len(c.log)])
           /\ (c.log # <<>> /\ c.log[Len(c.log)] = "ok") => c.ret = "ok"
           /\ run[r].jDelivered => <<run[r].dfid, r>> \in received

\* C10 witness: a delivery call has thrown after MAX_RETRIES attempts whose
\* reasons differ.
C10Witness ==
    \E r \in RunIds :
        /\ run[r].call.ret = "throw"
        /\ run[r].call.n = MAX_RETRIES
        /\ run[r].call.log[1] # run[r].call.log[MAX_RETRIES]

\* C11: whatever frames a further discoverFrameIds call observes, it leaves the
\* frameId of every panel that is bound as it is.
DiscoveryKeepsBound ==
    \A vis \in Visible :
        LET again == discoverFrameIds(variant = "split", iframePanels,
                                      FilterSeq(domFrames, vis))
        IN /\ Len(again) = Len(iframePanels)
           /\ \A j \in 1..Len(iframePanels) :
                 iframePanels[j].frameId # NULL
                    => again[j].frameId = iframePanels[j].frameId

\* C11 witness: a run is about to call discoverFrameIds again while a panel is
\* bound and another frame of the document matches that panel too.
C11Witness ==
    \E r \in RunIds :
        /\ run[r].pc \in {"disc2", "rediscover"}
        /\ \E j \in 1..Len(iframePanels) : \E f \in Range(domFrames) :
              /\ iframePanels[j].frameId # NULL
              /\ f # iframePanels[j].frameId
              /\ frameMatches(f, iframePanels[j])

ReauthOnlyJudgeHandle ==
    [][reauth' # reauth =>
          /\ councilState'.owner = councilState.owner
          /\ councilState'.models = councilState.models
          /\ councilState'.responses = councilState.responses
          /\ councilState'.judgeModelId = councilState.judgeModelId
          /\ councilState'.active = councilState.active
          /\ run' = run]_vars

\* C13 witness: handleReauthJudge has replaced the judge's tab while the
\* council round of a run was in flight with an agent still waited for.
C13Witness ==
    \E r \in RunIds :
        /\ reauth.n >= 1
        /\ reauth.pc = "idle"
        /\ councilState.owner = r
        /\ councilState.active
        /\ councilState.judgeTabId # NULL
        /\ councilState.judgeTabId.role = "reauth"
        /\ run[r].pc \in {"wpollAwait", "wpollDelay"}
        /\ \E j \in 1..Len(councilState.responses) :
              councilState.responses[j].status = "waiting"

\* The results whose response build is to place in the prompt.
Placed(results) ==
    { i \in 1..Len(results) : results[i].status = "complete" /\ results[i].response # "" }

\* C14: the prompt carries one block for each result that is complete with a
\* response that is not empty, with that response, in order; the note names each
\* of the other results once; no name is in both; there is no note when there
\* are no others.
BuildPartitionsResults ==
    je.pc = "built" =>
        LET rs == je.results
            pr == je.prompt
            others == (1..Len(rs)) \ Placed(rs)
        IN /\ Len(pr.blocks) = Cardinality(Placed(rs))
           /\ \A k \in 1..Len(pr.blocks) :
                 /\ pr.blocks[k].index \in Placed(rs)
                 /\ pr.blocks[k].name = rs[pr.blocks[k].index].modelName
                 /\ pr.blocks[k].response = rs[pr.blocks[k].index].response
                 /\ \A k2 \in 1..Len(pr.blocks) :
                       k < k2 => pr.blocks[k].index < pr.blocks[k2].index
           /\ Len(pr.note) = Cardinality(others)
           /\ { pr.note[k] : k \in 1..Len(pr.note) } = { rs[i].modelName : i \in others }
           /\ \A k \in 1..Len(pr.blocks) : \A k2 \in 1..Len(pr.note) :
                 pr.blocks[k].name # pr.note[k2]
           /\ (others = {}) <=> (pr.note = <<>>)

\* C14 witness: a prompt was built from three results of which one is complete
\* with a response, one is complete with an empty response and one has failed.
C14Witness ==
    /\ je.pc = "built"
    /\ \E i, j, k \in 1..Len(je.results) :
          /\ je.results[i].status = "complete" /\ je.results[i].response # ""
          /\ je.results[j].status = "complete" /\ je.results[j].response = ""
          /\ je.results[k].status = "failed"
    /\ Len(je.prompt.blocks) = 1
    /\ Len(je.prompt.note) = 2

\* The arguments the pipeline calls parseJudgeResponse with: a judge text that
\* is a string and the display names of the completed models.
PipelineArgs ==
    /\ je.raw.kind = "string"
    /\ je.names.kind = "array"
    /\ \A k \in 1..Len(je.names.list) : je.names.list[k] # NotAString

\* C15: a JudgeResult that parse returns to the pipeline, or that is made up
\* as the fallback, has parsed set exactly when its scores are not empty.
ParsedIffScores ==
    /\ (je.pc = "parsed" /\ PipelineArgs) => (je.out.parsed <=> je.out.scores # <<>>)
    /\ je.pc = "fallback" => (je.out.parsed <=> je.out.scores # <<>>)

\* C15 witness: parse has returned parsed = true from a judge's free text in
\* which one of the two known names has a subsection and the other has none.
C15Witness ==
    /\ je.pc = "parsed"
    /\ PipelineArgs
    /\ je.given = <<>>
    /\ Len(je.names.list) = 2
    /\ je.out.parsed
    /\ Len(je.out.scores) = 1

\* C16: no error leaves parse, whatever the raw text and the names; when a
\* call inside it fails the result has parsed = false and the raw text it
\* was given.
ParseNeverThrows ==
    je.pc = "parsed" =>
        /\ ~je.out.threw
        /\ ~PipelineArgs => (~je.out.parsed /\ je.out.rawText = je.raw)

\* C16 witness: parse has returned from a call that failed after a score had
\* been pushed.
C16Witness ==
    /\ je.pc = "parsed"
    /\ ~PipelineArgs
    /\ je.out.scores # <<>>

\* A heading of two or more hashes whose title starts with a known name.
HasSubsection(text, names) ==
    \E i \in 1..Len(text) : \E k \in 1..Len(names) :
        text[i].t = "head" /\ text[i].lvl >= 2 /\ within(text[i].name, names[k])

WinnerLines(text) == { i \in 1..Len(text) : text[i].t = "winner" /\ text[i].lvl >= 2 }

\* C18: without a Winner line the winner is the first entry of the ranking,
\* or empty when the ranking is empty too; with a Winner line the winner is
\* what the first such line names.
WinnerFromLineOrRanking ==
    (je.pc = "parsed" /\ PipelineArgs) =>
        LET text == je.raw.lines
            w == firstOf(WinnerLines(text))
        IN /\ (w = 0 /\ je.out.ranking # <<>>) => je.out.winner = je.out.ranking[1]
           /\ (w = 0 /\ je.out.ranking = <<>>) => je.out.winner = ""
           /\ w # 0 => je.out.winner = text[w].name

\* C19: parse returns at most one score per known name, and every score has
\* its criteria in 0..10 and its total in 0..50.
ScoresInRange ==
    (je.pc = "parsed" /\ PipelineArgs) =>
        /\ Len(je.out.scores) <= Len(je.names.list)
        /\ \A a, b \in 1..Len(je.out.scores) :
              a # b => je.out.scores[a].modelName # je.out.scores[b].modelName
        /\ \A a \in 1..Len(je.out.scores) :
              LET sc == je.out.scores[a]
              IN /\ sc.accuracy \in 0..10 /\ sc.depth \in 0..10 /\ sc.clarity \in 0..10
                 /\ sc.reasoning \in 0..10 /\ sc.relevance \in 0..10
                 /\ sc.total \in 0..50

\* C20: parse of the built output format, filled in with literal scores for
\* the responded models, returns for every one of them the criteria and the
\* total that were written.
RoundTrip ==
    (je.pc = "parsed" /\ je.given # <<>>) =>
        /\ je.out.parsed
        /\ Len(je.out.scores) = Len(je.given)
        /\ \A k \in 1..Len(je.given) :
              LET sc == je.out.scores[k]
              IN /\ sc.modelName = je.names.list[k]
                 /\ sc.accuracy = je.given[k].accuracy
                 /\ sc.depth = je.given[k].depth
                 /\ sc.clarity = je.given[k].clarity
                 /\ sc.reasoning = je.given[k].reasoning
                 /\ sc.relevance = je.given[k].relevance
                 /\ sc.total = je.given[k].total

\* C20 witness: the format was filled in for three models, not all with the
\* same scores, one total differing from the sum of its criteria, and parsed.
C20Witness ==
    /\ je.pc = "parsed"
    /\ Len(je.given) = 3
    /\ je.given[1] # je.given[2]
    /\ \E k \in 1..3 : je.given[k].total # 35

\* C21: every ASK_COUNCIL message the popup sends carries a council list
\* without the judge and of at least MIN_COUNCIL entries; after a click for
\* which the selection without the judge is shorter, no message was sent and
\* the popup is not running.
AskCouncilExcludesJudge ==
    /\ popup.msg # NoMsg =>
          /\ popup.msg.judge \notin Range(popup.msg.council)
          /\ Len(popup.msg.council) >= MIN_COUNCIL
    /\ (popup.last.op = "ask"
          /\ Len(FilterSeq(selectedCouncil, Range(selectedCouncil) \ {selectedJudge})) < MIN_COUNCIL)
         => (popup.msg = NoMsg /\ ~popup.wait /\ ~popup.isRunning)

\* C21 witness: a message has just been sent from a selection of three that
\* held the judge.
C21Witness ==
    /\ popup.last.op = "ask"
    /\ popup.msg # NoMsg
    /\ Len(selectedCouncil) = 3
    /\ selectedJudge \in Range(selectedCouncil)

\* C22: a selection of at most MAX_COUNCIL agents stays so under every
\* handler; a toggle of a selected agent removes it, a toggle of an
\* unselected agent at MAX_COUNCIL changes nothing, and the send control is
\* enabled only with MIN_COUNCIL..MAX_COUNCIL agents selected and a prompt.
SelectionStaysBounded ==
    /\ Len(selectedCouncil) <= MAX_COUNCIL
    /\ ~popup.disabled => (Len(selectedCouncil) \in MIN_COUNCIL..MAX_COUNCIL /\ popup.hasPrompt)
    /\ [][ /\ Len(selectedCouncil') <= MAX_COUNCIL
           /\ \A id \in KnownModels :
                 popup'.last = [op |-> "toggle", id |-> id] =>
                    /\ id \in Range(selectedCouncil) =>
                          /\ id \notin Range(selectedCouncil')
                          /\ Len(selectedCouncil') = Len(selectedCouncil) - 1
                    /\ (id \notin Range(selectedCouncil) /\ Len(selectedCouncil) >= MAX_COUNCIL)
                          => selectedCouncil' = selectedCouncil
           /\ ~popup'.disabled =>
                 (Len(selectedCouncil') \in MIN_COUNCIL..MAX_COUNCIL /\ popup'.hasPrompt)
         ]_vars

\* C22 witness: the last handler was the toggle of an agent that is not
\* selected while MAX_COUNCIL agents are.
C22Witness ==
    /\ popup.last.op = "toggle"
    /\ popup.last.id \notin Range(selectedCouncil)
    /\ Len(selectedCouncil) = MAX_COUNCIL

\* C23: the council poller polls an agent only after the prompt was delivered
\* to it in this run, and no agent without such a delivery is recorded as
\* having responded.
PollsOnlyDelivered ==
    \A r \in Current :
        /\ run[r].pc \in {"pollAwait", "wpollAwait"} => <<run[r].dfid, r>> \in received
        /\ \A j \in 1..Len(run[r].council) : IsComplete(r, j) => Delivered(r, j)

\* The response recorded for the council agent at index j of run r.
ResponseOf(r, j) ==
    IF variant \in Dashboards THEN run[r].responses[j] ELSE councilState.responses[j].response

\* responsesArray of a worker: councilModels.map(id => councilState.responses[id])
responsesArray(cs) ==
    [j \in 1..Len(cs.models) |->
       ResultOf(cs.models[j], cs.responses[j].status,
                IF cs.responses[j].response.q # 0 THEN "answer" ELSE "")]

\* C24: every agent that is complete holds a non-empty response, and the
\* names parse is given (those of the complete agents) are the names of the
\* agents whose responses build placed in the judge's prompt.
CompleteHasText ==
    \A r \in Current :
        /\ \A j \in 1..Len(run[r].council) : IsComplete(r, j) => ResponseOf(r, j).q # 0
        /\ (variant \in Workers /\ councilState.owner = r) =>
              LET placed == buildEvaluationPrompt("question", responsesArray(councilState)).blocks
                  names == completedResponses(councilState)
              IN /\ Len(names) = Len(placed)
                 /\ \A k \in 1..Len(names) :
                       modelName(councilState.models[names[k]]) = placed[k].name

\* C27: a response recorded for an agent of a run, the judge included, is the
\* answer to the prompt that run delivered on the channel.
ResponsesAreFresh ==
    \A r \in Current :
        /\ \A j \in 1..Len(run[r].council) :
              (IsComplete(r, j) /\ ResponseOf(r, j).q # 0) => ResponseOf(r, j).q = r
        /\ run[r].judgeText # NoText => run[r].judgeText.q = r

\* C25: no two panels of the dashboard are bound to the same frame, whatever
\* the number of discovery passes and the order in which frames become
\* visible.
HandlesAreDistinct ==
    \A j, k \in 1..Len(iframePanels) :
        (j # k /\ iframePanels[j].frameId # NULL /\ iframePanels[k].frameId # NULL)
            => iframePanels[j].frameId # iframePanels[k].frameId

\* C30: a run that waits for the reply to a discovery query, a delivery
\* message or a completion poll proceeds past the call and reaches its
\* terminal outcome, whether or not the remote side ever replies.
CallsAreTimeBounded ==
    \A r \in RunIds :
        (run[r].pc \in RemoteCalls)
            ~> (run[r].pc = "done" /\ run[r].outcome.kind \in {"result", "error"})

\* C28: at most one run is in flight, and the worker's active flag is true
\* whenever a pipeline of the worker is executing.
OneRunAtATime ==
    /\ Cardinality({ r \in RunIds : InFlight(r) }) <= 1
    /\ (variant \in Workers /\ \E r \in RunIds : InFlight(r)) => councilState.active

\* C29: a run broadcasts at most one terminal event (JUDGE_RESULT or ERROR)
\* and no status update after it, and once the popup has handled the terminal
\* event its running flag is false and its indicator stays success, warning
\* or error until the next submit.
TerminalEventIsLast ==
    /\ [](\A k \in 1..Len(popup.pipes) : \A i, j \in 1..Len(popup.pipes[k]) :
            (i < j /\ popup.pipes[k][i].type \in {"JUDGE_RESULT", "ERROR"})
                => popup.pipes[k][j].type \notin {"JUDGE_RESULT", "ERROR", "STATUS_UPDATE"})
    /\ [][(/\ popup.state \in {"success", "warning", "error"}
           /\ ~popup.isRunning
           /\ popup'.last.op # "ask")
            => (popup'.state \in {"success", "warning", "error"} /\ ~popup'.isRunning)]_vars

\* C26: executeScript on a page that already holds the handler adds no second
\* handler, and a delivery that ends in success has run the submit step for
\* its prompt exactly once, retries included.
SubmitsExactlyOnce ==
    /\ page.listeners <= 1
    /\ page.result = "ok" => page.submits = 1

\* C31: when the polling phase of a worker run has ended, every council agent
\* of the run is complete, failed or timeout.
PollingEndsTerminal ==
    \A r \in Current :
        (variant \in Workers /\ councilState.owner = r /\ run[r].collected # "no")
            => \A j \in 1..Len(councilState.responses) :
                  StatusOf(councilState, j) \in TerminalStatus

\* The status changes RESPONSE_STATUS allows.
StatusEdges ==
    { <<"pending", "injecting">>, <<"injecting", "waiting">>, <<"waiting", "complete">>,
      <<"pending", "failed">>, <<"injecting", "failed">>, <<"waiting", "timeout">> }

BackoffBeforeRetry ==
    [][\A r \in RunIds :
          (run[r].attempt >= 1 /\ run'[r].attempt = run[r].attempt + 1)
             => run[r].pc = "backoff"]_vars

\* Run r starts the delivery to a council agent in this step.
DeliveryStarts(r) ==
    /\ run'[r].tgt = "council"
    /\ run'[r].pc \in {"attempt", "wattempt"}
    /\ run[r].pc \notin {"attempt", "wattempt", "send", "wsend", "backoff"}

\* C34: the delivery to a council agent starts at an agent that is not before
\* the one delivered to last, and only after the inter-agent delay has
\* elapsed since the delivery before it returned or threw.
DeliveriesAreSpaced ==
    [][\A r \in RunIds :
          DeliveryStarts(r) => (run[r].call = NoCall /\ run'[r].i >= run[r].i)]_vars

\* C34 witness: on the tiled worker the delivery to the first agent has
\* failed and the prompt is now being sent to a later agent.
C34Witness ==
    \E r \in RunIds :
        /\ variant = "tiled"
        /\ councilState.owner = r
        /\ run[r].pc = "wsend"
        /\ run[r].tgt = "council"
        /\ run[r].i >= 2
        /\ councilState.responses[1].status = "failed"
        /\ councilState.responses[1].tabId # NULL

\* C35: when a dashboard run has ended, every panel of the run for which no
\* frame was found has its failed flag set.
UnreachableIsFlagged ==
    \A r \in Current :
        (variant \in Dashboards /\ run[r].pc = "done")
            => \A j \in 1..Len(iframePanels) :
                  (iframePanels[j].run = r /\ iframePanels[j].frameId = NULL)
                      => iframePanels[j].failed

\* C36: whatever executeScript does, the attempt goes on to send its
\* INJECT_PROMPT message: the delivery neither ends nor moves to another
\* attempt in that step.
ScriptErrorNotFatal ==
    [][page.pc = "inject"
          => (page'.pc = "send" /\ page'.attempt = page.attempt /\ page'.result = "none")]_vars

\* C36 witness: a delivery has succeeded in an attempt whose executeScript
\* was rejected.
C36Witness == page.result = "ok" /\ page.scriptErr

\* The program counters at which a run waits for the reply to a poll.
PollAwaits == {"pollAwait", "jpollAwait", "wpollAwait", "wjpollAwait"}

\* C37: a poll that ends in an error changes no agent's status or response
\* and ends neither the polling phase nor the run: the run goes on to the
\* next agent of the cycle or to the delay before the next cycle.
PollErrorIsNotFatal ==
    [][\A r \in RunIds :
          (run[r].pc \in PollAwaits /\ run'[r].pc # run[r].pc /\ run'[r].rep = "err")
             => /\ councilState' = councilState
                /\ run'[r].responses = run[r].responses
                /\ run'[r].pending = run[r].pending
                /\ run'[r].outcome = run[r].outcome
                /\ run'[r].pc \in {"pollFor", "wpollFor", "jpollDelay", "wjpollDelay"}]_vars

\* C37 witness: a council agent's poll ended in an error, and the agent is
\* still waiting for the next cycle.
C37Witness ==
    \E r \in RunIds :
        /\ variant \in Workers
        /\ councilState.owner = r
        /\ run[r].pc = "wpollFor"
        /\ run[r].rep = "err"
        /\ run[r].k >= 2
        /\ councilState.responses[run[r].snap[run[r].k - 1]].status = "waiting"

\* C38: every message the handlers of a page ran on was answered with
\* exactly one sendResponse call.
AnsweredExactlyOnce == page.msg # "none" => page.replies = 1

\* C39: a successful EXTRACT_RESPONSE reply that is not complete carries the
\* empty text, and one that carries text is complete.
IncompleteCarriesNoText ==
    (page.msg = "EXTRACT_RESPONSE" /\ page.reply.success)
        => /\ ~page.reply.complete => page.reply.response = ""
           /\ page.reply.response # "" => page.reply.complete

\* C39 witness: the page was polled while the answer was being written, and
\* the reply says not complete and carries no text.
C39Witness ==
    /\ page.msg = "EXTRACT_RESPONSE"
    /\ page.reply.success
    /\ page.reply.seen = "partial"
    /\ ~page.reply.complete
    /\ page.reply.response = ""

\* The totals a block states: "Total", digits and "/ 50", in a table row or
\* outside the table.
StatedTotals(block) ==
    { block[i].val : i \in { k \in 1..Len(block) :
                               /\ block[k].t \in {"row", "total"} /\ block[k].name = "Total"
                               /\ block[k].lvl = 50 /\ block[k].val >= 0 } }

\* C40: the total of every parsed score is a total its subsection states,
\* when it states one, and the sum of its five criterion scores otherwise.
TotalIsStatedOrSum ==
    (je.pc = "parsed" /\ PipelineArgs) =>
        \A a \in 1..Len(je.out.scores) :
            LET sc == je.out.scores[a]
                stated == StatedTotals(sectionOf(je.raw.lines, sc.modelName))
            IN IF stated # {} THEN sc.total \in stated
               ELSE sc.total = sc.accuracy + sc.depth + sc.clarity + sc.reasoning + sc.relevance

====
